---- MODULE Spec2Model ----
(***************************************************************************)
(* Model of the hyper_trading_system strategy engine (mv_bb.py), its       *)
(* candle aggregator (candle_helpers.py), streaming indicator              *)
(* (indicators.py) and the post-correlation part of the protocol client    *)
(* (ws_client.py).                                                         *)
(*                                                                         *)
(* Representation.  Times are integer milliseconds since the epoch (local  *)
(* time is taken to be UTC).  Prices are fixed-point integers in units of  *)
(* 1/PxScale, sizes in units of 1/SzScale.  An optional value (Python      *)
(* None) is the empty sequence <<>>, a present value v is <<v>>.           *)
(***************************************************************************)
EXTENDS Integers, Sequences, FiniteSets, TLC

VARIABLES
    phase,                    \* "new" before MeanReversionBB(...), "live" after, "failed" if __init__ raised
    symbol,                   \* self.symbol
    target_candle_unit,       \* self.target_candle_unit
    strategy_state,           \* self.strategy_state
    latest_candle_watermark,  \* self.latest_candle_watermark
    current_candle,           \* self.current_candle
    last_full_candle,         \* self.last_full_candle
    startup_complete,         \* self.startup_complete
    bollinger_bands,          \* self.bollinger_bands (data_window and the three bands)
    position,                 \* the exchange's signed position size per coin
    call,                     \* the operation executed by the last step, with its arguments
    ops,                      \* the exchange calls issued by the last step, in order
    err,                      \* the exception the last step ended with, "none" if it returned
    app,                      \* HLWebSocketClient._app is not None
    opened,                   \* HLWebSocketClient._opened_event
    id_counter,               \* the next value of HLWebSocketClient._id_counter
    pending_posts,            \* HLWebSocketClient._pending_posts
    sent,                     \* the ids of the post frames handed to the socket
    inbound,                  \* the frame _on_message handled in the last step, if it was one
    waiter,                   \* the threads calling await_post: position, arguments, result
    channel_handlers,         \* HLWebSocketClient._channel_handlers
    wildcard_handlers,        \* HLWebSocketClient._wildcard_handlers
    received,                 \* per handler, the frames it was called with, in call order
    calls,                    \* the handler calls of the last callback, in order, and whether each raised
    arrived,                  \* the frames and socket errors the callbacks were given, in order
    registered_at,            \* per handler, Len(arrived) when it was registered
    auto_reconnect,           \* HLWebSocketClient._auto_reconnect
    stop_event,               \* HLWebSocketClient._stop_event
    thread_ref,               \* HLWebSocketClient._thread: the thread it names, 0 for None
    loop,                     \* per background thread, its position in _run
    closer,                   \* the position of the caller of close()
    attempts,                 \* the run_forever calls made on a WebSocketApp so far
    sender,                   \* the threads calling ping / post_info: position, frame, outcome
    send_lock,                \* the holder of HLWebSocketClient._send_lock, "free" if none
    wire,                     \* the frames self._app.send transmitted, in order
    send_calls,               \* the ping / post_info calls started so far
    manager,                  \* which SubscriptionManager class: "core" or "api"
    subscriptions,            \* SubscriptionManager.subscriptions
    subscription_counter,     \* SubscriptionManager._subscription_counter
    issued,                   \* the ids _generate_subscription_id returned, in order
    contexts,                 \* SubscriptionManager._contexts: per address, the bundle built for it
    constructions,            \* per address, the contexts built for it so far
    hl_subs,                  \* the subscriptions live on the Info clients
    sm_call,                  \* the manager call of the last step: arguments and outcome
    adder                     \* the threads inside add_subscription: position and locals

stratVars == <<phase, symbol, target_candle_unit, strategy_state, latest_candle_watermark, current_candle,
               last_full_candle, startup_complete, bollinger_bands, position>>
dispVars == <<channel_handlers, wildcard_handlers, received, calls, arrived, registered_at>>
connVars == <<auto_reconnect, stop_event, thread_ref, loop, closer, attempts>>
sendVars == <<sender, send_lock, wire, send_calls>>
wsVars == <<app, opened, id_counter, pending_posts, sent, inbound, waiter, dispVars, connVars,
            sendVars>>
smVars == <<manager, subscriptions, subscription_counter, issued, contexts, constructions, hl_subs,
            sm_call, adder>>
vars == <<stratVars, call, ops, err, wsVars, smVars>>

(***************************************************************************)
(* Bounds of the model.                                                    *)
(***************************************************************************)
MaxSlot == 5        \* candle messages start at slot * InputMs, slot in 0..MaxSlot
MaxHist == 4        \* longest candles_snapshot reply replayed at startup
ma_lookback_periods == 2   \* the indicator period N the strategy is constructed with
MaxPeriod == 3      \* largest period of an indicator driven on its own
MaxUpdates == 5     \* most values fed to an indicator between two resets
MaxResets == 2      \* most reset() calls on one indicator
MaxFrames == 3      \* most frames and socket errors given to a client with handlers
MaxConnects == 2    \* most connect() calls that start a background thread
MaxAttempts == 3    \* most run_forever calls of one client
MaxSends == 2       \* most ping / post_info calls of the sending threads together
MaxId == 1          \* the client issues the post request ids 1..MaxId

(***************************************************************************)
(* Configuration of the strategy: the defaults of MeanReversionBB.__init__ *)
(***************************************************************************)
bb_std_dev_num == 5               \* bb_std_dev = 2.5 = 5/2
bb_std_dev_den == 2
multiplier_num == 1               \* stop_loss_multiplier = take_profit_multiplier = 0.5 = 1/2
multiplier_den == 2
target_candle_periods == 1
target_candle_unit_default == "h"
max_decimals_sz == 4
max_decimals_px == 1
trade_size_usd_whole == 12        \* trade_size_usd = 12.0

PxScale == 10 ^ 2                 \* prices carry two decimals
SzScale == 10 ^ 6                 \* sizes carry six decimals
trade_size_usd == trade_size_usd_whole * PxScale

SecondMs == 1000
MinuteMs == 60 * SecondMs
HourMs == 60 * MinuteMs
DayMs == 24 * HourMs

InputMs == 30 * MinuteMs          \* the candle messages fed to the model are "30m" candles

Symbols == {"ETH", "BTC"}
PositionSizes == {0 - 126400, 0, 126400}
Prices == {100 * PxScale, 104 * PxScale}
EpochWatermark == 0               \* dt.datetime(1970, 1, 1)

NoCall == [op |-> "none"]

(***************************************************************************)
(* Arithmetic helpers.                                                     *)
(***************************************************************************)
Max(a, b) == IF a >= b THEN a ELSE b
Min(a, b) == IF a <= b THEN a ELSE b

RECURSIVE SumSeq(_)
SumSeq(s) == IF s = <<>> THEN 0 ELSE Head(s) + SumSeq(Tail(s))

RECURSIVE ISqrtBetween(_, _, _)
ISqrtBetween(lo, hi, x) ==
    IF lo >= hi THEN lo
    ELSE LET mid == (lo + hi + 1) \div 2
         IN  IF mid * mid <= x THEN ISqrtBetween(mid, hi, x)
                               ELSE ISqrtBetween(lo, mid - 1, x)

\* math.sqrt on the fixed-point grid: the largest r with r*r <= x
ISqrt(x) == ISqrtBetween(0, Min(x, 46340), x)

\* float division a / b of two prices, as a size (truncated to the size grid)
DivToSize(a, b) == (a * SzScale) \div b

\* utils.round_values(value, decimals): round half up to a multiple of unit
RoundValues(value, unit) == ((2 * value + unit) \div (2 * unit)) * unit

PxUnit == PxScale \div (10 ^ max_decimals_px)
SzUnit == SzScale \div (10 ^ max_decimals_sz)
round_values_default_decimals == 2   \* precision of round_values called without a precision
DefaultUnit == PxScale \div (10 ^ round_values_default_decimals)

(***************************************************************************)
(* events.py: OHLCVEvent                                                   *)
(***************************************************************************)
\* the wire form of a candle message's data for a slot and a close
CandleData(slot, c) ==
    [t |-> slot * InputMs, T |-> slot * InputMs + InputMs - 1, s |-> "ETH",
     i |-> <<InputMs \div MinuteMs, "m">>, o |-> c, h |-> c, l |-> c, c |-> c, v |-> 1, n |-> 1]

OHLCVEvent_from_hyperliquid_message(message) ==
    [start_time |-> message.t, end_time |-> message.T, symbol |-> message.s,
     period |-> message.i[1], unit |-> message.i[2],
     open |-> message.o, high |-> message.h, low |-> message.l, close |-> message.c,
     volume |-> message.v, num_trades |-> message.n]

(***************************************************************************)
(* candle_helpers.py                                                       *)
(***************************************************************************)
SupportedUnits == {"s", "m", "h", "d"}

\* _get_timedelta; <<>> stands for the ValueError of an unsupported unit
get_timedelta(period, unit) ==
    CASE unit = "s" -> <<period * SecondMs>>
      [] unit = "m" -> <<period * MinuteMs>>
      [] unit = "h" -> <<period * HourMs>>
      [] unit = "d" -> <<period * DayMs>>
      [] OTHER      -> <<>>

MinuteOf(ts) == (ts \div MinuteMs) % 60
HourOf(ts) == (ts \div HourMs) % 24

\* normalize_timestamp; <<>> stands for the ValueError of an unsupported unit
normalize_timestamp(ts, period, unit) ==
    CASE unit = "s" -> <<(ts - (ts % SecondMs)) - (MinuteOf(ts) % period) * SecondMs>>
      [] unit = "m" -> <<(ts - (ts % MinuteMs)) - (MinuteOf(ts) % period) * MinuteMs>>
      [] unit = "h" -> <<(ts - (ts % HourMs)) - (HourOf(ts) % period) * HourMs>>
      [] unit = "d" -> <<ts - (ts % DayMs)>>
      [] OTHER      -> <<>>

\* aggregate_ohlcv: [raised, is_complete, candle]
aggregate_ohlcv(new_candle, current_aggregated_candle, target_period, target_unit) ==
    LET norm == normalize_timestamp(new_candle.start_time, target_period, target_unit)
    IN  IF norm = <<>> THEN [raised |-> TRUE, is_complete |-> FALSE, candle |-> current_aggregated_candle]
        ELSE
        LET cur1 == IF current_aggregated_candle # <<>> /\ norm[1] > current_aggregated_candle[1].end_time
                    THEN <<>> ELSE current_aggregated_candle
            cur2 == IF cur1 = <<>>
                    THEN [start_time |-> norm[1],
                          end_time |-> norm[1] + get_timedelta(target_period, target_unit)[1] - SecondMs,
                          symbol |-> new_candle.symbol,
                          period |-> target_period, unit |-> target_unit,
                          open |-> new_candle.open, high |-> new_candle.high,
                          low |-> new_candle.low, close |-> new_candle.close,
                          volume |-> 0, num_trades |-> 0]
                    ELSE cur1[1]
            cur3 == [cur2 EXCEPT !.high = Max(cur2.high, new_candle.high),
                                 !.low = Min(cur2.low, new_candle.low),
                                 !.close = new_candle.close,
                                 !.volume = cur2.volume + new_candle.volume,
                                 !.num_trades = cur2.num_trades + new_candle.num_trades]
        IN  [raised |-> FALSE,
             is_complete |-> new_candle.end_time >= cur3.end_time,
             candle |-> <<cur3>>]

(***************************************************************************)
(* indicators.py: BollingerBands                                           *)
(***************************************************************************)
\* the two ValueErrors of BollingerBands.__init__; period < 2 with a positive
\* num_std_dev only prints a warning (indicators.py 14-19)
BollingerBands_init_raises(period, num_std_dev) ==
    period <= 0 \/ num_std_dev.num < 0

\* num_std_dev is the fraction num/den
BollingerBands_init(period, num_std_dev) ==
    [period |-> period, num_std_dev |-> num_std_dev, data_window |-> <<>>,
     middle_band |-> <<>>, upper_band |-> <<>>, lower_band |-> <<>>]

\* a variant of DequeAppend for a deque without maxlen
DequeAppendUnbounded(window, value, maxlen) == Append(window, value)

\* collections.deque(maxlen=period).append
DequeAppend(window, value, maxlen) ==
    IF Len(window) >= maxlen THEN Append(Tail(window), value) ELSE Append(window, value)

\* a variant of Stdev with the population divisor n
StdevPopulation(window) ==
    LET n == Len(window)
        total == SumSeq(window)
        sq == [i \in 1 .. n |-> (n * window[i] - total) * (n * window[i] - total)]
    IN  ISqrt(SumSeq(sq) \div (n * n * n))

\* statistics.stdev: the sample standard deviation (n-1 divisor)
RECURSIVE SumSqDev(_, _, _)
SumSqDev(s, n, total) ==
    IF s = <<>> THEN 0
    ELSE (n * Head(s) - total) * (n * Head(s) - total) + SumSqDev(Tail(s), n, total)

Stdev(window) ==
    LET n == Len(window)
    IN  ISqrt(SumSqDev(window, n, SumSeq(window)) \div (n * n * (n - 1)))

BollingerBands_update(bb, new_value) ==
    LET w == DequeAppend(bb.data_window, new_value, bb.period)
    IN  IF Len(w) = bb.period
        THEN LET middle == SumSeq(w) \div bb.period
                 std_dev == IF bb.period < 2 THEN 0 ELSE Stdev(w)
                 offset == (bb.num_std_dev.num * std_dev) \div bb.num_std_dev.den
             IN  [bb EXCEPT !.data_window = w,
                            !.middle_band = <<middle>>,
                            !.upper_band = <<middle + offset>>,
                            !.lower_band = <<middle - offset>>]
        ELSE [bb EXCEPT !.data_window = w,
                        !.middle_band = <<>>, !.upper_band = <<>>, !.lower_band = <<>>]

is_ready(bb) == bb.middle_band # <<>>

\* a variant of BollingerBands_reset that clears the bands only
BollingerBands_resetBandsOnly(bb) ==
    [bb EXCEPT !.middle_band = <<>>, !.upper_band = <<>>, !.lower_band = <<>>]

BollingerBands_reset(bb) ==
    [bb EXCEPT !.data_window = <<>>,
               !.middle_band = <<>>, !.upper_band = <<>>, !.lower_band = <<>>]

(***************************************************************************)
(* order_system.py: BasicOrderSystem, and the exchange calls               *)
(***************************************************************************)
\* BasicOrderSystem.get_position: None if flat
get_position(pos, sym) ==
    IF sym \notin DOMAIN pos \/ pos[sym] = 0 THEN <<>>
    ELSE <<[symbol |-> sym, size |-> pos[sym],
            side |-> IF pos[sym] > 0 THEN "long" ELSE "short"]>>

\* the record of one BasicOrderSystem.cancel_all_orders(symbol) call
CancelAll(sym) == [op |-> "cancel_all_orders", symbol |-> sym]

\* the record of one hl_exchange.order(...) call with a limit order type
LimitOrder(sym, is_buy, sz, limit_px) ==
    [op |-> "order", name |-> sym, is_buy |-> is_buy, sz |-> sz, limit_px |-> limit_px,
     order_type |-> [kind |-> "limit", tif |-> "Gtc"]]

\* the record of one hl_exchange.order(...) call with a trigger order type
TriggerOrder(sym, is_buy, sz, limit_px, triggerPx, tpsl) ==
    [op |-> "order", name |-> sym, is_buy |-> is_buy, sz |-> sz, limit_px |-> limit_px,
     order_type |-> [kind |-> "trigger", triggerPx |-> triggerPx, isMarket |-> TRUE, tpsl |-> tpsl]]

Result(o, e) == [ops |-> o, err |-> e]

(***************************************************************************)
(* mv_bb.py: the order logic of each state                                 *)
(***************************************************************************)
\* a variant of NeutralOrders that places the buy order only
NeutralOrdersBuyOnly(self) ==
    LET bb == self.bollinger_bands
    IN  IF bb.lower_band = <<>> \/ bb.upper_band = <<>> THEN Result(<<>>, "TypeError")
        ELSE Result(<<LimitOrder(self.symbol, TRUE,
                          RoundValues(DivToSize(trade_size_usd, bb.lower_band[1]), SzUnit),
                          RoundValues(bb.lower_band[1], PxUnit))>>, "none")

\* the two limit orders of the NEUTRAL state (mv_bb.py 126-140, 265-278)
NeutralOrders(self) ==
    LET bb == self.bollinger_bands
    IN  IF bb.lower_band = <<>> \/ bb.upper_band = <<>> THEN Result(<<>>, "TypeError")
        ELSE IF bb.lower_band[1] = 0 THEN Result(<<>>, "ZeroDivisionError")
        ELSE LET buy == LimitOrder(self.symbol, TRUE,
                            RoundValues(DivToSize(trade_size_usd, bb.lower_band[1]), SzUnit),
                            RoundValues(bb.lower_band[1], PxUnit))
             IN  IF bb.upper_band[1] = 0 THEN Result(<<buy>>, "ZeroDivisionError")
                 ELSE Result(<<buy,
                               LimitOrder(self.symbol, FALSE,
                                   RoundValues(DivToSize(trade_size_usd, bb.upper_band[1]), SzUnit),
                                   RoundValues(bb.upper_band[1], PxUnit))>>, "none")

\* the LONG branch (mv_bb.py 141-187, 281-327, 386-431)
LongOrderLogic(self, pos) ==
    LET bb == self.bollinger_bands
    IN  IF bb.lower_band = <<>> \/ bb.middle_band = <<>> THEN Result(<<>>, "TypeError")
        ELSE
        LET bb_range_half == (0 - bb.lower_band[1]) + bb.middle_band[1]
            stop_px == RoundValues(bb.lower_band[1]
                          - ((bb_range_half * multiplier_num) \div multiplier_den), PxUnit)
            tp_px == RoundValues(bb.lower_band[1]
                          + ((bb_range_half * multiplier_num) \div multiplier_den), PxUnit)
            p == get_position(pos, self.symbol)
        IN  IF p = <<>> THEN Result(<<CancelAll(self.symbol)>>, "TypeError")
            ELSE Result(<<CancelAll(self.symbol),
                          TriggerOrder(self.symbol, FALSE, p[1].size, stop_px, stop_px, "sl"),
                          TriggerOrder(self.symbol, FALSE, p[1].size, tp_px, tp_px, "tp")>>,
                        "none")

\* the SHORT branch (mv_bb.py 190-234, 330-374, 434-479); the take-profit
\* triggerPx is rounded without the precision argument
ShortOrderLogic(self, pos) ==
    LET bb == self.bollinger_bands
    IN  IF bb.upper_band = <<>> \/ bb.middle_band = <<>> THEN Result(<<>>, "TypeError")
        ELSE
        LET bb_range_half == bb.upper_band[1] - bb.middle_band[1]
            stop_raw == bb.upper_band[1] + ((bb_range_half * multiplier_num) \div multiplier_den)
            tp_raw == bb.upper_band[1] - ((bb_range_half * multiplier_num) \div multiplier_den)
            p == get_position(pos, self.symbol)
        IN  IF p = <<>> THEN Result(<<CancelAll(self.symbol)>>, "TypeError")
            ELSE Result(<<CancelAll(self.symbol),
                          TriggerOrder(self.symbol, TRUE, p[1].size,
                                       RoundValues(stop_raw, PxUnit), RoundValues(stop_raw, PxUnit), "sl"),
                          TriggerOrder(self.symbol, TRUE, p[1].size,
                                       RoundValues(tp_raw, PxUnit), RoundValues(tp_raw, DefaultUnit), "tp")>>,
                        "none")

\* the order logic run on aggregate completion (mv_bb.py 260-376)
CandleOrderLogic(self, pos) ==
    CASE self.strategy_state = "NEUTRAL" ->
            LET r == NeutralOrders(self)
            IN  Result(<<CancelAll(self.symbol)>> \o r.ops, r.err)
      [] self.strategy_state = "LONG" -> LongOrderLogic(self, pos)
      [] self.strategy_state = "SHORT" -> ShortOrderLogic(self, pos)
      [] OTHER -> Result(<<>>, "ValueError")

(***************************************************************************)
(* events.py: FillEvent                                                    *)
(***************************************************************************)
\* one fill of a userFills message, as the wire dict
FillData(sz, side) ==
    [coin |-> "ETH", px |-> 100 * PxScale, sz |-> sz, side |-> side, time |-> 0]

\* FillEvent.from_hyperliquid_message(message): message["coin"] and the other
\* string subscripts raise TypeError on a list; <<>> stands for that TypeError
FillEvent_from_hyperliquid_message(message) ==
    IF message.pytype = "list" THEN <<>>
    ELSE <<[symbol |-> message.value.coin, price |-> message.value.px,
            size |-> message.value.sz, side |-> message.value.side,
            time |-> message.value.time]>>

\* event.order: <<>> stands for the AttributeError of a missing attribute
FillEvent_order(event) == IF "order" \in DOMAIN event THEN <<event.order>> ELSE <<>>

(***************************************************************************)
(* mv_bb.py: MeanReversionBB                                               *)
(***************************************************************************)
Outcome(self, o, e) == [self |-> self, ops |-> o, err |-> e]

\* MeanReversionBB.__init__ up to the call of _start_up (mv_bb.py 45-71)
MeanReversionBB_init(sym, unit) ==
    [symbol |-> sym,
     target_candle_unit |-> unit,
     bollinger_bands |-> BollingerBands_init(ma_lookback_periods,
                                            [num |-> bb_std_dev_num, den |-> bb_std_dev_den]),
     current_candle |-> <<>>,
     last_full_candle |-> <<>>,
     latest_candle_watermark |-> EpochWatermark,
     startup_complete |-> FALSE,
     strategy_state |-> "NEUTRAL"]

\* the watermark test of the startup replay (mv_bb.py 97)
ReplaySkips(event, watermark) == event.start_time <= watermark

\* the replay loop of _start_up over startup_candles[:-1] (mv_bb.py 95-106)
RECURSIVE Replay(_, _)
Replay(self, candles) ==
    IF candles = <<>> THEN [self |-> self, raised |-> FALSE]
    ELSE LET event == OHLCVEvent_from_hyperliquid_message(Head(candles))
         IN  IF ReplaySkips(event, self.latest_candle_watermark)
             THEN Replay(self, Tail(candles))
             ELSE LET s1 == [self EXCEPT !.latest_candle_watermark = event.start_time]
                      a == aggregate_ohlcv(event, s1.current_candle,
                                           target_candle_periods, self.target_candle_unit)
                  IN  IF a.raised THEN [self |-> s1, raised |-> TRUE]
                      ELSE LET s2 == [s1 EXCEPT !.current_candle = a.candle]
                               s3 == IF a.is_complete
                                     THEN [s2 EXCEPT
                                            !.bollinger_bands =
                                                BollingerBands_update(s2.bollinger_bands, a.candle[1].close),
                                            !.last_full_candle = a.candle]
                                     ELSE s2
                           IN  Replay(s3, Tail(candles))

\* the coin whose position _start_up reads (mv_bb.py 113)
StartupPositionCoin(self) == "ETH"

\* the initial state from the live position (mv_bb.py 113-120)
StartupState(self, pos) ==
    LET positions == get_position(pos, StartupPositionCoin(self))
    IN  IF positions = <<>> \/ positions[1].size = 0 THEN "NEUTRAL"
        ELSE IF positions[1].side = "long" THEN "LONG"
        ELSE IF positions[1].side = "short" THEN "SHORT"
        ELSE self.strategy_state

\* _start_up after the replay loop: cancel, read the position, cancel, place
\* the orders of the initial state (mv_bb.py 107-234)
StartupOrders(rep, pos) ==
    IF rep.raised THEN Outcome(rep.self, <<>>, "ValueError")
    ELSE
    LET s1 == [rep.self EXCEPT !.startup_complete = TRUE]
        s2 == [s1 EXCEPT !.strategy_state = StartupState(s1, pos)]
        cancels == <<CancelAll(s2.symbol), CancelAll(s2.symbol)>>
        r == CASE s2.strategy_state = "NEUTRAL" -> NeutralOrders(s2)
               [] s2.strategy_state = "LONG" -> LongOrderLogic(s2, pos)
               [] s2.strategy_state = "SHORT" -> ShortOrderLogic(s2, pos)
               [] OTHER -> Result(<<>>, "none")
    IN  Outcome(s2, cancels \o r.ops, r.err)

\* a variant of AllButLast that replays the last candle too
WholeHistory(candles) == candles

\* startup_candles[:-1]
AllButLast(candles) ==
    IF Len(candles) = 0 THEN <<>> ELSE SubSeq(candles, 1, Len(candles) - 1)

\* MeanReversionBB._start_up (mv_bb.py 87-234)
start_up(self0, startup_candles, pos) ==
    StartupOrders(Replay(self0, AllButLast(startup_candles)), pos)

\* a variant of CandleRejected that lets a candle at the watermark through
CandleRejectedBelow(event, watermark, nowv) ==
    event.start_time < watermark \/ event.end_time >= nowv

\* the two rejection tests of a candle message (mv_bb.py 243-248)
CandleRejected(event, watermark, nowv) ==
    event.start_time <= watermark \/ event.end_time >= nowv

\* the body of the fill branch for a message that is not a snapshot
\* (mv_bb.py 379-491)
ProcessLiveFill(self, message, pos) ==
    LET ev == FillEvent_from_hyperliquid_message(message.data.fills)
    IN  IF ev = <<>> THEN Outcome(self, <<>>, "TypeError")
        ELSE
        CASE self.strategy_state = "NEUTRAL" ->
                LET order == FillEvent_order(ev[1])
                IN  IF order = <<>> THEN Outcome(self, <<>>, "AttributeError")
                    ELSE IF order[1].quantity > 0
                    THEN LET s1 == [self EXCEPT !.strategy_state = "LONG"]
                             r == LongOrderLogic(s1, pos)
                         IN  Outcome(s1, r.ops, r.err)
                    ELSE IF order[1].quantity < 0
                    THEN LET s1 == [self EXCEPT !.strategy_state = "SHORT"]
                             r == ShortOrderLogic(s1, pos)
                         IN  Outcome(s1, r.ops, r.err)
                    ELSE Outcome(self, <<>>, "ValueError")
          [] self.strategy_state \in {"LONG", "SHORT"} ->
                Outcome([self EXCEPT !.strategy_state = "NEUTRAL"],
                        <<CancelAll(self.symbol)>>, "none")
          [] OTHER -> Outcome(self, <<>>, "ValueError")

\* a variant of ProcessFill without the isSnapshot test
ProcessFillAlways(self, message, pos) == ProcessLiveFill(self, message, pos)

\* the fill branch of process_message (mv_bb.py 377-491)
ProcessFill(self, message, pos) ==
    IF message.data.isSnapshot THEN Outcome(self, <<>>, "none")
    ELSE ProcessLiveFill(self, message, pos)

\* the candle branch of process_message (mv_bb.py 241-376)
ProcessCandle(self, message, nowv, pos) ==
    LET event == OHLCVEvent_from_hyperliquid_message(message.data)
    IN  IF CandleRejected(event, self.latest_candle_watermark, nowv)
        THEN Outcome(self, <<>>, "none")
        ELSE
        LET s1 == [self EXCEPT !.latest_candle_watermark = event.start_time]
            a == aggregate_ohlcv(event, s1.current_candle,
                                 target_candle_periods, self.target_candle_unit)
        IN  IF a.raised THEN Outcome(s1, <<>>, "ValueError")
            ELSE
            LET s2 == [s1 EXCEPT !.current_candle = a.candle]
            IN  IF ~a.is_complete THEN Outcome(s2, <<>>, "none")
                ELSE
                LET s3 == [s2 EXCEPT !.bollinger_bands =
                                BollingerBands_update(s2.bollinger_bands, a.candle[1].close)]
                    s4 == IF is_ready(s3.bollinger_bands)
                          THEN [s3 EXCEPT !.startup_complete = TRUE] ELSE s3
                IN  IF ~s4.startup_complete THEN Outcome(s4, <<>>, "none")
                    ELSE LET r == CandleOrderLogic(s4, pos)
                         IN  Outcome(s4, r.ops, r.err)

\* MeanReversionBB.process_message (mv_bb.py 236-493)
process_message(self, message, nowv, pos) ==
    CASE message.channel = "candle" -> ProcessCandle(self, message, nowv, pos)
      [] message.channel = "userFills" -> ProcessFill(self, message, pos)
      [] OTHER -> Outcome(self, <<>>, "ValueError")

(***************************************************************************)
(* ws_client.py: HLWebSocketClient, the post correlation                   *)
(***************************************************************************)
Ids == 1 .. (MaxId + 1)                  \* the ids frames and await_post calls name
Waiters == {"t1", "t2"}                  \* the threads that call await_post
Payloads == {"a", "b"}
Timeouts == {"none", "zero", "finite"}   \* timeout=None, timeout=0, timeout>0

\* the thread's record once await_post has returned or raised
Done(w, result, raised) ==
    [pc |-> "done", id |-> w.id, timeout |-> w.timeout, expired |-> w.expired,
     notified |-> FALSE, result |-> result, raised |-> raised]

IdleWaiter ==
    [pc |-> "idle", id |-> 0, timeout |-> "none", expired |-> FALSE, notified |-> FALSE,
     result |-> <<>>, raised |-> "none"]

\* inbound frames: post responses, and frames of a data channel that carry an id
InboundFrames ==
    {[channel |-> "post", data |-> [id |-> i, payload |-> p]] : i \in Ids, p \in Payloads}
    \cup {[channel |-> "candle", data |-> [id |-> i, payload |-> "a"]] : i \in Ids}

\* self._pending_posts[request_id] = None (ws_client.py 141-142)
RegisterPost(pending, request_id) ==
    [i \in (DOMAIN pending) \cup {request_id} |->
        IF i = request_id THEN <<>> ELSE pending[i]]

\* the two tests of _send before self._app.send (ws_client.py 157-161)
SendRaises(appv, openedv) == ~appv \/ ~openedv

\* a variant of CorrelatePost that does not test the channel
CorrelateAnyChannel(pending, frame) ==
    IF frame.data.id \in DOMAIN pending
    THEN [pending EXCEPT ![frame.data.id] = <<frame.data>>]
    ELSE pending

\* the correlation of a post response in _on_message (ws_client.py 189-199)
CorrelatePost(pending, frame) ==
    IF frame.channel = "post" /\ frame.data.id \in DOMAIN pending
    THEN [pending EXCEPT ![frame.data.id] = <<frame.data>>]
    ELSE pending

\* whether _on_message calls notify_all (ws_client.py 197-199)
NotifiesAll(pending, frame) ==
    frame.channel = "post" /\ frame.data.id \in DOMAIN pending

\* self._pending_posts.pop(request_id)
PopPost(pending, request_id) ==
    [i \in (DOMAIN pending) \ {request_id} |-> pending[i]]

\* a variant of AwaitLoop that never gives up at the deadline
AwaitLoopNoDeadline(pending, w, expiredv) ==
    IF w.id \notin DOMAIN pending
    THEN [waiter |-> Done(w, <<>>, "KeyError"), pending |-> pending]
    ELSE IF pending[w.id] # <<>>
    THEN [waiter |-> Done(w, pending[w.id], "none"), pending |-> PopPost(pending, w.id)]
    ELSE [waiter |-> [w EXCEPT !.pc = "waiting", !.notified = FALSE], pending |-> pending]

\* one pass of the loop of await_post, from the test of the while to the wait
\* or a return (ws_client.py 128-133)
AwaitLoop(pending, w, expiredv) ==
    IF w.id \notin DOMAIN pending
    THEN [waiter |-> Done(w, <<>>, "KeyError"), pending |-> pending]
    ELSE IF pending[w.id] # <<>>
    THEN [waiter |-> Done(w, pending[w.id], "none"), pending |-> PopPost(pending, w.id)]
    ELSE IF w.timeout # "none" /\ expiredv
    THEN [waiter |-> Done(w, <<>>, "none"), pending |-> pending]
    ELSE [waiter |-> [w EXCEPT !.pc = "waiting", !.notified = FALSE], pending |-> pending]

\* await_post from its call to its first wait or return (ws_client.py 123-133)
await_post(pending, request_id, timeout) ==
    LET w == [IdleWaiter EXCEPT !.id = request_id, !.timeout = timeout,
                                !.expired = (timeout = "zero")]
    IN  IF request_id \notin DOMAIN pending
        THEN [waiter |-> Done(w, <<>>, "none"), pending |-> pending]
        ELSE AwaitLoop(pending, w, w.expired)

(***************************************************************************)
(* The inputs of the strategy model.                                       *)
(***************************************************************************)
Slots == 0 .. MaxSlot
\* the readings of dt.datetime.now() while a candle message is handled: the
\* candle's end time exactly and one millisecond later
ClockReadings(message) ==
    IF message.channel = "candle"
    THEN {message.data.T, message.data.T + 1}
    ELSE {0}

\* candles_snapshot replies: at most n candles in chronological order, a slot
\* may repeat
RECURSIVE Histories(_, _)
Histories(n, minSlot) ==
    IF n = 0 THEN {<<>>}
    ELSE {<<>>} \cup
         UNION {{<<CandleData(sl, c)>> \o rest : rest \in Histories(n - 1, sl)} :
                sl \in minSlot .. MaxSlot, c \in Prices}

CandleMessages == {[channel |-> "candle", data |-> CandleData(sl, c)] : sl \in Slots, c \in Prices}

FillSizes == {0, 126400}
\* the fills field of a userFills message: the list the wire protocol sends, or a
\* single fill dict
FillPayloads ==
    {[pytype |-> "list", items |-> <<FillData(126400, "B")>>], [pytype |-> "list", items |-> <<>>]}
    \cup {[pytype |-> "dict", value |-> FillData(sz, side)] : sz \in FillSizes, side \in {"B", "A"}}

FillMessages ==
    {[channel |-> "userFills", data |-> [isSnapshot |-> b, fills |-> f]] :
        b \in BOOLEAN, f \in FillPayloads}

OtherMessages == {[channel |-> "allMids", data |-> <<>>]}

Messages == CandleMessages \cup FillMessages \cup OtherMessages

(***************************************************************************)
(* The strategy as a state machine.                                        *)
(***************************************************************************)
Self ==
    [symbol |-> symbol,
     target_candle_unit |-> target_candle_unit,
     bollinger_bands |-> bollinger_bands,
     current_candle |-> current_candle,
     last_full_candle |-> last_full_candle,
     latest_candle_watermark |-> latest_candle_watermark,
     startup_complete |-> startup_complete,
     strategy_state |-> strategy_state]

SetSelf(s) ==
    /\ symbol' = s.symbol
    /\ target_candle_unit' = s.target_candle_unit
    /\ bollinger_bands' = s.bollinger_bands
    /\ current_candle' = s.current_candle
    /\ last_full_candle' = s.last_full_candle
    /\ latest_candle_watermark' = s.latest_candle_watermark
    /\ startup_complete' = s.startup_complete
    /\ strategy_state' = s.strategy_state

\* the handlers a test registers on a client, and the channels they register for
Handlers == {"h1", "h2"}
HandlerChannels == {"post", "candle", "error"}

\* __init__: no handler registered
HandlersInitial ==
    /\ channel_handlers = [c \in {} |-> <<>>]
    /\ wildcard_handlers = <<>>
    /\ received = [h \in Handlers |-> <<>>]
    /\ calls = <<>>
    /\ arrived = <<>>
    /\ registered_at = [h \in Handlers |-> <<>>]

\* the background threads connect() can start
Threads == 1 .. MaxConnects

\* __init__: no thread, the stop event clear
ConnInitial ==
    /\ auto_reconnect = TRUE
    /\ stop_event = FALSE
    /\ thread_ref = 0
    /\ loop = [t \in Threads |-> "unborn"]
    /\ closer = "idle"
    /\ attempts = 0

\* after connect(): the first thread is inside run_forever
ConnConnected ==
    /\ auto_reconnect = TRUE
    /\ stop_event = FALSE
    /\ thread_ref = 1
    /\ loop = [t \in Threads |-> IF t = 1 THEN "running" ELSE "unborn"]
    /\ closer = "idle"
    /\ attempts = 1

\* the threads that send, and a thread outside any call
Senders == {"s1", "s2"}
IdleSender == [pc |-> "idle", method |-> "none", id |-> 0, result |-> "none"]

\* the account addresses, stream types and outcomes the Session Manager is
\* called with; "none" is a params dict without 'user'
Addresses == {"a1", "a2"}
NoUser == "none"
SubTypes == {"candle", "userFills"}
SingleTypes == {"candle"}      \* the type add_subscription is called with
Adders == {"t1", "t2"}
IdleAdder == [pc |-> "idle", user |-> NoUser, loaded |-> 0, id |-> <<>>, client |-> <<>>,
              result |-> "none"]
NoSmCall == [op |-> "none", params |-> <<>>, user |-> NoUser, message |-> "none", target |-> <<>>, result |-> "none", ids |-> <<>>,
             count |-> 0, unsubscribed |-> <<>>, raised |-> <<>>, stats |-> <<>>]

\* before SubscriptionManager(...), with what __init__ sets: no subscription, the counter at 0, no context
SmInitial ==
    /\ manager = "none"
    /\ subscriptions = [i \in {} |-> <<>>]
    /\ subscription_counter = 0
    /\ issued = <<>>
    /\ contexts = [a \in {} |-> <<>>]
    /\ constructions = [a \in Addresses |-> 0]
    /\ hl_subs = {}
    /\ sm_call = NoSmCall
    /\ adder = [t \in Adders |-> IdleAdder]

\* no call of the send path yet
SendInitial ==
    /\ sender = [s \in Senders |-> IdleSender]
    /\ send_lock = "free"
    /\ wire = <<>>
    /\ send_calls = 0

WsInitial ==
    /\ HandlersInitial
    /\ ConnInitial
    /\ SendInitial
    /\ SmInitial
    /\ app = FALSE
    /\ opened = FALSE
    /\ id_counter = 1
    /\ pending_posts = [i \in {} |-> <<>>]
    /\ sent = {}
    /\ inbound = <<>>
    /\ waiter = [w \in Waiters |-> IdleWaiter]

SetSelfInitWith(sym, unit) ==
    LET s == MeanReversionBB_init(sym, unit)
    IN  /\ symbol = s.symbol
        /\ target_candle_unit = s.target_candle_unit
        /\ bollinger_bands = s.bollinger_bands
        /\ current_candle = s.current_candle
        /\ last_full_candle = s.last_full_candle
        /\ latest_candle_watermark = s.latest_candle_watermark
        /\ startup_complete = s.startup_complete
        /\ strategy_state = s.strategy_state

SetSelfInit(sym) == SetSelfInitWith(sym, target_candle_unit_default)

\* the strategy object while MeanReversionBB.__init__ runs, before _start_up
StratInit ==
    /\ phase = "new"
    /\ SetSelfInit("ETH")
    /\ position \in {p \in [Symbols -> PositionSizes] : p["BTC"] = 0}
    /\ call = NoCall
    /\ ops = <<>>
    /\ err = "none"
    /\ WsInitial

\* MeanReversionBB.__init__ runs _start_up; an exception leaves no strategy object
StartUpFrom(hist) ==
    /\ phase = "new"
    /\ LET out == start_up(Self, hist, position)
       IN  /\ SetSelf(out.self)
           /\ ops' = out.ops
           /\ err' = out.err
           /\ phase' = IF out.err = "none" THEN "live" ELSE "failed"
    /\ UNCHANGED <<position, wsVars, smVars>>

\* construction with any reply of candles_snapshot
StartUp ==
    \E hist \in Histories(MaxHist, 0) :
       /\ StartUpFrom(hist)
       /\ call' = [op |-> "start_up", pre |-> strategy_state]

\* one inbound frame handed to MeanReversionBB.process_message
ProcessMessageFrom(message, nowv) ==
    /\ phase = "live"
    /\ LET out == process_message(Self, message, nowv, position)
       IN  /\ SetSelf(out.self)
           /\ ops' = out.ops
           /\ err' = out.err
    /\ UNCHANGED <<phase, position, wsVars, smVars>>

\* any inbound frame, handled at any reading of the clock
ProcessMessage ==
    \E message \in Messages :
       \E nowv \in ClockReadings(message) :
          /\ ProcessMessageFrom(message, nowv)
          /\ call' = [op |-> "process_message", message |-> message,
                      now |-> nowv, pre |-> strategy_state]

\* the exchange changes the account's position in the strategy's coin
PositionChange ==
    /\ phase = "live"
    /\ \E size \in PositionSizes :
          /\ position[symbol] # size
          /\ position' = [position EXCEPT ![symbol] = size]
    /\ call' = [op |-> "position"]
    /\ ops' = <<>>
    /\ err' = "none"
    /\ UNCHANGED <<phase, symbol, target_candle_unit, strategy_state, latest_candle_watermark,
                   current_candle, last_full_candle, startup_complete, bollinger_bands,
                   wsVars, smVars>>

StratUnchanged == UNCHANGED <<stratVars, call, ops, err>>

\* post_info / post_action without a request id (ws_client.py 117-121, 138-152)
Post ==
    /\ id_counter <= MaxId
    /\ id_counter' = id_counter + 1
    /\ pending_posts' = RegisterPost(pending_posts, id_counter)
    /\ sent' = IF SendRaises(app, opened) THEN sent ELSE sent \cup {id_counter}
    /\ inbound' = <<>>
    /\ UNCHANGED <<app, opened, waiter>>
    /\ UNCHANGED <<dispVars, connVars, sendVars, smVars>>
    /\ StratUnchanged

\* _on_message for one inbound frame (ws_client.py 182-215); no handler is registered
OnMessage ==
    /\ opened
    /\ \E frame \in InboundFrames :
          /\ pending_posts' = CorrelatePost(pending_posts, frame)
          /\ waiter' = [w \in Waiters |->
                          IF NotifiesAll(pending_posts, frame) /\ waiter[w].pc = "waiting"
                          THEN [waiter[w] EXCEPT !.notified = TRUE] ELSE waiter[w]]
          /\ inbound' = <<frame>>
    /\ UNCHANGED <<app, opened, id_counter, sent>>
    /\ UNCHANGED <<dispVars, connVars, sendVars, smVars>>
    /\ StratUnchanged

\* a thread calls await_post(request_id, timeout)
AwaitPost(w) ==
    /\ waiter[w].pc = "idle"
    /\ \E rid \in Ids, timeout \in Timeouts :
          LET out == await_post(pending_posts, rid, timeout)
          IN  /\ waiter' = [waiter EXCEPT ![w] = out.waiter]
              /\ pending_posts' = out.pending
    /\ inbound' = <<>>
    /\ UNCHANGED <<app, opened, id_counter, sent>>
    /\ UNCHANGED <<dispVars, connVars, sendVars, smVars>>
    /\ StratUnchanged

\* the deadline of a waiting await_post passes
Expire(w) ==
    /\ waiter[w].pc = "waiting"
    /\ waiter[w].timeout # "none"
    /\ ~waiter[w].expired
    /\ waiter' = [waiter EXCEPT ![w].expired = TRUE]
    /\ inbound' = <<>>
    /\ UNCHANGED <<app, opened, id_counter, pending_posts, sent>>
    /\ UNCHANGED <<dispVars, connVars, sendVars, smVars>>
    /\ StratUnchanged

\* self._pending_cv.wait returns, notified or timed out, and the loop runs again
Wake(w) ==
    /\ waiter[w].pc = "waiting"
    /\ waiter[w].notified \/ waiter[w].expired
    /\ LET out == AwaitLoop(pending_posts, waiter[w], waiter[w].expired)
       IN  /\ waiter' = [waiter EXCEPT ![w] = out.waiter]
           /\ pending_posts' = out.pending
    /\ inbound' = <<>>
    /\ UNCHANGED <<app, opened, id_counter, sent>>
    /\ UNCHANGED <<dispVars, connVars, sendVars, smVars>>
    /\ StratUnchanged

\* the caller takes the result of await_post; the thread may call again
Return(w) ==
    /\ waiter[w].pc = "done"
    /\ waiter' = [waiter EXCEPT ![w] = IdleWaiter]
    /\ inbound' = <<>>
    /\ UNCHANGED <<app, opened, id_counter, pending_posts, sent>>
    /\ UNCHANGED <<dispVars, connVars, sendVars, smVars>>
    /\ StratUnchanged

\* a client after connect() with the socket open, beside a strategy that is
\* not constructed
WsInit ==
    /\ phase = "new"
    /\ SetSelfInit("ETH")
    /\ position = [c \in Symbols |-> 0]
    /\ call = NoCall
    /\ ops = <<>>
    /\ err = "none"
    /\ app = TRUE
    /\ opened = TRUE
    /\ id_counter = 1
    /\ pending_posts = [i \in {} |-> <<>>]
    /\ sent = {}
    /\ inbound = <<>>
    /\ waiter = [w \in Waiters |-> IdleWaiter]
    /\ HandlersInitial
    /\ ConnConnected
    /\ SendInitial
    /\ SmInitial

WsNext ==
    \/ Post \/ OnMessage
    \/ \E w \in Waiters : AwaitPost(w) \/ Expire(w) \/ Wake(w) \/ Return(w)

WsSpec == WsInit /\ [][WsNext]_vars

\* threads are scheduled and time passes: a wait that can end does end
WsFairSpec ==
    /\ WsSpec
    /\ \A w \in Waiters : WF_vars(Expire(w)) /\ WF_vars(Wake(w))

StratNext == StartUp \/ ProcessMessage \/ PositionChange

\* a strategy constructed for any configured symbol, with any live positions
SymbolInit ==
    /\ phase = "new"
    /\ \E sym \in Symbols : SetSelfInit(sym)
    /\ position \in [Symbols -> PositionSizes]
    /\ call = NoCall
    /\ ops = <<>>
    /\ err = "none"
    /\ WsInitial

\* construction and startup of a strategy for any configured symbol
SymbolSpec == SymbolInit /\ [][StartUp]_vars

\* a variant of ChannelHandlersFor that returns the handlers of every channel
RECURSIVE ChannelHandlersOfAny(_, _)
ChannelHandlersOfAny(handlers, channel) ==
    IF DOMAIN handlers = {} THEN <<>>
    ELSE LET c == CHOOSE x \in DOMAIN handlers : TRUE
         IN  handlers[c] \o ChannelHandlersOfAny([d \in DOMAIN handlers \ {c} |-> handlers[d]],
                                                 channel)

\* self._channel_handlers.get(channel, [])
ChannelHandlersFor(handlers, channel) ==
    IF channel \in DOMAIN handlers THEN handlers[channel] ELSE <<>>

\* a variant of HandlerCallRaises for a call outside any try/except
HandlerCallReraises(raised) == raised

\* the exception that leaves a handler call of _on_message: the try/except
\* around handler(obj) swallows every Exception (ws_client.py 204-215)
HandlerCallRaises(raised) == "none"

\* the handler calls of one loop `for handler in list(...): try: handler(obj)
\* except Exception: pass`: each handler in order, raising if it is in
\* `raising`; the loop ends early only if an exception leaves a call
RECURSIVE InvokeAll(_, _)
InvokeAll(handlers, raising) ==
    IF handlers = <<>> THEN <<>>
    ELSE LET raised == IF Head(handlers) \in raising THEN "Exception" ELSE "none"
             this == [handler |-> Head(handlers), raised |-> raised,
                      propagated |-> HandlerCallRaises(raised)]
         IN  IF this.propagated # "none" THEN <<this>>
             ELSE <<this>> \o InvokeAll(Tail(handlers), raising)

\* the exception that leaves a sequence of handler calls
Propagated(cs) == IF cs = <<>> THEN "none" ELSE cs[Len(cs)].propagated

\* the handlers' logs after the calls cs with frame obj
RECURSIVE Record(_, _, _)
Record(log, cs, obj) ==
    IF cs = <<>> THEN log
    ELSE Record([log EXCEPT ![Head(cs).handler] = Append(@, obj)], Tail(cs), obj)

\* _on_message from the dispatch on: channel handlers, then wildcard handlers
DispatchCalls(ch, wh, obj, raising) ==
    LET first == InvokeAll(ChannelHandlersFor(ch, obj.channel), raising)
    IN  IF Propagated(first) # "none" THEN first
        ELSE first \o InvokeAll(wh, raising)

\* the frames a client with handlers is given
DispatchFrames ==
    {[channel |-> "post", data |-> [id |-> 1, payload |-> "a"]],
     [channel |-> "candle", data |-> [id |-> 1, payload |-> "a"]]}

\* err_msg of _on_error: the data is the text of the error, it carries no id
ErrorFrame == [channel |-> "error", data |-> [id |-> 0, payload |-> "socket error"]]

DispatchRest ==
    UNCHANGED <<stratVars, call, ops, app, opened, id_counter, sent, connVars, sendVars,
                smVars>>

\* add_handler(channel, handler), for a handler not registered yet
AddHandler ==
    /\ \E c \in HandlerChannels, h \in Handlers :
          /\ registered_at[h] = <<>>
          /\ channel_handlers' =
                [d \in DOMAIN channel_handlers \cup {c} |->
                    IF d # c THEN channel_handlers[d]
                    ELSE IF c \in DOMAIN channel_handlers
                         THEN Append(channel_handlers[c], h) ELSE <<h>>]
          /\ registered_at' = [registered_at EXCEPT ![h] = <<Len(arrived)>>]
    /\ calls' = <<>>
    /\ inbound' = <<>>
    /\ UNCHANGED <<wildcard_handlers, received, arrived, pending_posts, waiter, err>>
    /\ DispatchRest

\* add_wildcard_handler(handler), for a handler not registered yet
AddWildcardHandler ==
    /\ \E h \in Handlers :
          /\ registered_at[h] = <<>>
          /\ wildcard_handlers' = Append(wildcard_handlers, h)
          /\ registered_at' = [registered_at EXCEPT ![h] = <<Len(arrived)>>]
    /\ calls' = <<>>
    /\ inbound' = <<>>
    /\ UNCHANGED <<channel_handlers, received, arrived, pending_posts, waiter, err>>
    /\ DispatchRest

\* _on_message for one inbound frame of a client with handlers; any subset
\* of the handlers raises when called
Dispatch ==
    /\ opened
    /\ Len(arrived) < MaxFrames
    /\ \E frame \in DispatchFrames, raising \in SUBSET Handlers :
          LET cs == DispatchCalls(channel_handlers, wildcard_handlers, frame, raising)
          IN  /\ pending_posts' = CorrelatePost(pending_posts, frame)
              /\ waiter' = [w \in Waiters |->
                              IF NotifiesAll(pending_posts, frame) /\ waiter[w].pc = "waiting"
                              THEN [waiter[w] EXCEPT !.notified = TRUE] ELSE waiter[w]]
              /\ inbound' = <<frame>>
              /\ calls' = cs
              /\ received' = Record(received, cs, frame)
              /\ err' = Propagated(cs)
              /\ arrived' = Append(arrived, [frame |-> frame, synthetic |-> FALSE])
    /\ UNCHANGED <<channel_handlers, wildcard_handlers, registered_at>>
    /\ DispatchRest

\* _on_error for one socket error; any subset of the handlers raises
OnError ==
    /\ Len(arrived) < MaxFrames
    /\ \E raising \in SUBSET Handlers :
          LET cs == InvokeAll(wildcard_handlers, raising)
          IN  /\ calls' = cs
              /\ received' = Record(received, cs, ErrorFrame)
              /\ err' = Propagated(cs)
    /\ arrived' = Append(arrived, [frame |-> ErrorFrame, synthetic |-> TRUE])
    /\ inbound' = <<>>
    /\ UNCHANGED <<channel_handlers, wildcard_handlers, registered_at, pending_posts, waiter>>
    /\ DispatchRest

DispatchNext == AddHandler \/ AddWildcardHandler \/ Dispatch \/ OnError \/ Post

\* a connected client on which handlers are registered while frames and
\* socket errors arrive
DispatchSpec == WsInit /\ [][DispatchNext]_vars

(***************************************************************************)
(* ws_client.py: connect, the connection loop _run, close                  *)
(***************************************************************************)
\* a variant of JoinsThread that joins whatever self._thread holds
JoinsThreadAlways(ref) == TRUE

\* `if self._thread is not None` (ws_client.py 97)
JoinsThread(ref) == ref # 0

\* `while not self._stop_event.is_set()` (ws_client.py 69)
LoopEnters(stop) == ~stop

\* a variant of LoopBreaks that leaves the loop after every connection
LoopBreaksAlways(reconnect, stop) == TRUE

\* `if not self._auto_reconnect or self._stop_event.is_set(): break` (ws_client.py 80)
LoopBreaks(reconnect, stop) == ~reconnect \/ stop

ConnRest ==
    UNCHANGED <<stratVars, ops, id_counter, pending_posts, sent, waiter, dispVars, sendVars,
                auto_reconnect, smVars>>

\* a client after __init__, with or without auto-reconnect
ConnInit ==
    /\ phase = "new"
    /\ SetSelfInit("ETH")
    /\ position = [c \in Symbols |-> 0]
    /\ call = NoCall
    /\ ops = <<>>
    /\ err = "none"
    /\ app = FALSE
    /\ opened = FALSE
    /\ id_counter = 1
    /\ pending_posts = [i \in {} |-> <<>>]
    /\ sent = {}
    /\ inbound = <<>>
    /\ waiter = [w \in Waiters |-> IdleWaiter]
    /\ HandlersInitial
    /\ SendInitial
    /\ SmInitial
    /\ auto_reconnect \in BOOLEAN
    /\ stop_event = FALSE
    /\ thread_ref = 0
    /\ loop = [t \in Threads |-> "unborn"]
    /\ closer = "idle"
    /\ attempts = 0

\* connect(): nothing if self._app is set, else clears the stop event,
\* creates the WebSocketApp and starts a thread on _run; the bounded wait for
\* the open event then ends either way
Connect ==
    /\ closer = "idle"
    /\ IF app
       THEN UNCHANGED <<app, stop_event, thread_ref, loop>>
       ELSE /\ \E t \in Threads :
                 /\ loop[t] = "unborn"
                 /\ \A u \in Threads : u < t => loop[u] # "unborn"
                 /\ loop' = [loop EXCEPT ![t] = "check"]
                 /\ thread_ref' = t
            /\ app' = TRUE
            /\ stop_event' = FALSE
    /\ call' = [op |-> "connect"]
    /\ err' = "none"
    /\ inbound' = <<>>
    /\ UNCHANGED <<opened, closer, attempts>>
    /\ ConnRest

\* _run at the while test (ws_client.py 69)
LoopCheck(t) ==
    /\ loop[t] = "check"
    /\ loop' = [loop EXCEPT ![t] = IF LoopEnters(stop_event) THEN "call" ELSE "exited"]
    /\ call' = [op |-> "_run"]
    /\ inbound' = <<>>
    /\ UNCHANGED <<app, opened, stop_event, thread_ref, closer, attempts, err>>
    /\ ConnRest

\* self._app.run_forever(...) is called (ws_client.py 72): a connection
\* attempt on the app self._app names now; if it is None the AttributeError
\* is swallowed by the except of line 77
RunForever(t) ==
    /\ loop[t] = "call"
    /\ IF app
       THEN /\ attempts < MaxAttempts
            /\ attempts' = attempts + 1
            /\ loop' = [loop EXCEPT ![t] = "running"]
       ELSE /\ attempts' = attempts
            /\ loop' = [loop EXCEPT ![t] = "after"]
    /\ call' = [op |-> "run_forever"]
    /\ inbound' = <<>>
    /\ UNCHANGED <<app, opened, stop_event, thread_ref, closer, err>>
    /\ ConnRest

\* the socket of a running attempt opens: _on_open
OnOpen(t) ==
    /\ loop[t] = "running"
    /\ ~opened
    /\ opened' = TRUE
    /\ call' = [op |-> "_on_open"]
    /\ inbound' = <<>>
    /\ UNCHANGED <<app, stop_event, thread_ref, loop, closer, attempts, err>>
    /\ ConnRest

\* run_forever ends: remote close, error, exception, or app.close(); _on_close
\* clears the open event
ConnectionEnds(t) ==
    /\ loop[t] = "running"
    /\ loop' = [loop EXCEPT ![t] = "after"]
    /\ opened' = FALSE
    /\ call' = [op |-> "_on_close"]
    /\ inbound' = <<>>
    /\ UNCHANGED <<app, stop_event, thread_ref, closer, attempts, err>>
    /\ ConnRest

\* _run after run_forever (ws_client.py 80-82): break, or sleep one second
LoopAfter(t) ==
    /\ loop[t] = "after"
    /\ loop' = [loop EXCEPT ![t] = IF LoopBreaks(auto_reconnect, stop_event)
                                    THEN "exited" ELSE "sleeping"]
    /\ call' = [op |-> "_run"]
    /\ inbound' = <<>>
    /\ UNCHANGED <<app, opened, stop_event, thread_ref, closer, attempts, err>>
    /\ ConnRest

\* time.sleep(1.0) returns
LoopWakes(t) ==
    /\ loop[t] = "sleeping"
    /\ loop' = [loop EXCEPT ![t] = "check"]
    /\ call' = [op |-> "_run"]
    /\ inbound' = <<>>
    /\ UNCHANGED <<app, opened, stop_event, thread_ref, closer, attempts, err>>
    /\ ConnRest

\* close() up to the join (ws_client.py 91-98): sets the stop event, closes
\* the app if there is one (any exception swallowed), then joins the thread
\* if there is one; without a thread it runs to its end
CloseBegin ==
    /\ closer = "idle"
    /\ stop_event' = TRUE
    /\ IF JoinsThread(thread_ref)
       THEN IF thread_ref = 0
            THEN /\ err' = "AttributeError"
                 /\ UNCHANGED <<app, thread_ref, closer>>
            ELSE /\ closer' = "joining"
                 /\ err' = "none"
                 /\ UNCHANGED <<app, thread_ref>>
       ELSE /\ app' = FALSE
            /\ thread_ref' = 0
            /\ err' = "none"
            /\ UNCHANGED closer
    /\ call' = [op |-> "close", closed |-> ~app /\ stop_event /\ thread_ref = 0]
    /\ inbound' = <<>>
    /\ UNCHANGED <<opened, loop, attempts>>
    /\ ConnRest

\* self._thread.join(timeout=5) returns, the thread ended or not, and close()
\* clears both fields (ws_client.py 98-100)
CloseEnd ==
    /\ closer = "joining"
    /\ closer' = "idle"
    /\ app' = FALSE
    /\ thread_ref' = 0
    /\ call' = [op |-> "close_returns", closed |-> FALSE]
    /\ err' = "none"
    /\ inbound' = <<>>
    /\ UNCHANGED <<opened, stop_event, loop, attempts>>
    /\ ConnRest

ConnNext ==
    \/ Connect \/ CloseBegin \/ CloseEnd
    \/ \E t \in Threads : \/ LoopCheck(t) \/ RunForever(t) \/ OnOpen(t)
                          \/ ConnectionEnds(t) \/ LoopAfter(t) \/ LoopWakes(t)

\* one client under connect() and close() calls of its owner while its
\* background threads run
ConnSpec == ConnInit /\ [][ConnNext]_vars

\* the background threads are scheduled and time.sleep(1.0) returns
ConnFairSpec ==
    /\ ConnSpec
    /\ \A t \in Threads :
          /\ WF_vars(LoopCheck(t)) /\ WF_vars(RunForever(t))
          /\ WF_vars(LoopAfter(t)) /\ WF_vars(LoopWakes(t))

\* await_post is called before close() only: every wait met after close()
\* was blocked when close() was called
CloseNext ==
    \/ Post \/ OnMessage
    \/ \E w \in Waiters : (~stop_event /\ AwaitPost(w)) \/ Expire(w) \/ Wake(w) \/ Return(w)
    \/ CloseBegin \/ CloseEnd
    \/ \E t \in Threads : \/ LoopCheck(t) \/ RunForever(t) \/ OnOpen(t)
                          \/ ConnectionEnds(t) \/ LoopAfter(t) \/ LoopWakes(t)

\* a connected client whose owner posts, awaits and closes: threads are
\* scheduled, deadlines pass, the join ends, and a closed app ends run_forever
CloseFairSpec ==
    /\ WsInit
    /\ [][CloseNext]_vars
    /\ \A w \in Waiters : WF_vars(Expire(w)) /\ WF_vars(Wake(w))
    /\ WF_vars(CloseEnd)
    /\ \A t \in Threads :
          /\ WF_vars(LoopCheck(t)) /\ WF_vars(RunForever(t))
          /\ WF_vars(LoopAfter(t)) /\ WF_vars(LoopWakes(t))
          /\ WF_vars(ConnectionEnds(t) /\ stop_event)

(***************************************************************************)
(* ws_client.py: the send path of ping and post_info, one step per         *)
(* statement, for threads that call concurrently                           *)
(***************************************************************************)
\* a variant of LockIsFree for a send path without the lock
LockIgnored(lock) == TRUE

\* `with self._send_lock:` can be entered (ws_client.py 156)
LockIsFree(lock) == lock = "free"

\* a variant of NextId for a counter that does not advance
NextIdSame(counter) == counter

\* the counter after next(self._id_counter) (ws_client.py 140)
NextId(counter) == counter + 1

\* self._app.send(data) of the websocket library (ws_client.py 162): the
\* frame is written if the app has an open socket, else the call raises
AppSend(appv, sock_open) ==
    IF ~appv THEN "AttributeError"
    ELSE IF ~sock_open THEN "WebSocketConnectionClosedException"
    ELSE "sent"

SendMethods == {"ping", "post"}

SendRest ==
    UNCHANGED <<stratVars, call, ops, err, app, opened, sent, waiter, dispVars, connVars,
                smVars>>

\* a thread calls ping() or post_info(payload)
SendCall(s) ==
    /\ sender[s].pc = "idle"
    /\ send_calls < MaxSends
    /\ send_calls' = send_calls + 1
    /\ \E m \in SendMethods :
          sender' = [sender EXCEPT ![s] = [pc |-> IF m = "post" THEN "alloc" ELSE "lock",
                                           method |-> m, id |-> 0, result |-> "none"]]
    /\ inbound' = <<>>
    /\ UNCHANGED <<id_counter, pending_posts, send_lock, wire>>
    /\ SendRest

\* request_id = next(self._id_counter) (ws_client.py 139-140)
PostAlloc(s) ==
    /\ sender[s].pc = "alloc"
    /\ sender' = [sender EXCEPT ![s].pc = "register", ![s].id = id_counter]
    /\ id_counter' = NextId(id_counter)
    /\ inbound' = <<>>
    /\ UNCHANGED <<pending_posts, send_lock, wire, send_calls>>
    /\ SendRest

\* self._pending_posts[request_id] = None under the condition's lock
\* (ws_client.py 141-142)
PostRegister(s) ==
    /\ sender[s].pc = "register"
    /\ pending_posts' = RegisterPost(pending_posts, sender[s].id)
    /\ sender' = [sender EXCEPT ![s].pc = "lock"]
    /\ inbound' = <<>>
    /\ UNCHANGED <<id_counter, send_lock, wire, send_calls>>
    /\ SendRest

\* _send enters the lock and tests self._app (ws_client.py 156-158)
SendEnter(s) ==
    /\ sender[s].pc = "lock"
    /\ LockIsFree(send_lock)
    /\ IF app
       THEN /\ sender' = [sender EXCEPT ![s].pc = "wait"]
            /\ send_lock' = s
       ELSE /\ sender' = [sender EXCEPT ![s].pc = "done", ![s].result = "RuntimeError"]
            /\ send_lock' = send_lock
    /\ inbound' = <<>>
    /\ UNCHANGED <<id_counter, pending_posts, wire, send_calls>>
    /\ SendRest

\* self._opened_event.wait(timeout=5.0) returns (ws_client.py 160-161): true
\* if the event is set, else false after the five seconds and _send raises
SendWait(s) ==
    /\ sender[s].pc = "wait"
    /\ IF opened
       THEN /\ sender' = [sender EXCEPT ![s].pc = "transmit"]
            /\ send_lock' = send_lock
       ELSE /\ sender' = [sender EXCEPT ![s].pc = "done", ![s].result = "RuntimeError"]
            /\ send_lock' = "free"
    /\ inbound' = <<>>
    /\ UNCHANGED <<id_counter, pending_posts, wire, send_calls>>
    /\ SendRest

\* self._app.send(data) and the end of the with block (ws_client.py 162)
Transmit(s) ==
    /\ sender[s].pc = "transmit"
    /\ LET outcome == AppSend(app, opened)
       IN  /\ sender' = [sender EXCEPT ![s].pc = "done", ![s].result = outcome]
           /\ wire' = IF outcome = "sent"
                      THEN Append(wire, [method |-> sender[s].method, id |-> sender[s].id,
                                         by |-> s])
                      ELSE wire
    /\ send_lock' = "free"
    /\ inbound' = <<>>
    /\ UNCHANGED <<id_counter, pending_posts, send_calls>>
    /\ SendRest

\* the caller has the id or the exception; the thread may call again
SendReturn(s) ==
    /\ sender[s].pc = "done"
    /\ sender' = [sender EXCEPT ![s] = IdleSender]
    /\ inbound' = <<>>
    /\ UNCHANGED <<id_counter, pending_posts, send_lock, wire, send_calls>>
    /\ SendRest

SendNext ==
    \/ \E s \in Senders : \/ SendCall(s) \/ PostAlloc(s) \/ PostRegister(s)
                          \/ SendEnter(s) \/ SendWait(s) \/ Transmit(s) \/ SendReturn(s)
    \/ CloseBegin \/ CloseEnd
    \/ \E t \in Threads : \/ LoopCheck(t) \/ RunForever(t) \/ OnOpen(t)
                          \/ ConnectionEnds(t) \/ LoopAfter(t) \/ LoopWakes(t)

\* a connected client on which two threads send while the connection drops,
\* reopens and is closed
SendSpec == WsInit /\ [][SendNext]_vars

(***************************************************************************)
(* Session Manager: core/subscription_manager.py and the single-client     *)
(* api/subscription_manager.py.  A subscription id "sub_n" is <<"sub", n>>; *)
(* a context is named by the Info client built for it, <<address, k>> for   *)
(* the k-th bundle built for the address; the api manager's one client is   *)
(* <<"info", 0>>.  The id Info.subscribe returns is named by the manager id *)
(* it was issued to.                                                        *)
(***************************************************************************)
MaxSubIds == 2

\* f"sub_{n}"
SubscriptionId(n) == <<"sub", n>>
SubIds == {SubscriptionId(n) : n \in 1 .. MaxSubIds}
ApiClient == <<"info", 0>>

\* variant: the id is taken from the size of the table
GenerateFromTableSize(counter) ==
    LET n == Cardinality(DOMAIN subscriptions) + 1
    IN  [counter |-> n, id |-> SubscriptionId(n)]

\* _generate_subscription_id: the counter after the call and the id returned
GenerateSubscriptionId(counter) ==
    [counter |-> counter + 1, id |-> SubscriptionId(counter + 1)]

\* exchange_utils.setup as the manager calls it, with secret_key and
\* account_address
SetupTakesAccount == TRUE

\* exchange_utils.setup: raises on an account with no equity and no balance
Setup(has_equity) ==
    IF ~SetupTakesAccount THEN "TypeError"
    ELSE IF ~has_equity THEN "Exception"
    ELSE "ok"

\* variant: a bundle is built on every add
ContextMissingAlways(ctxs, user) == TRUE

\* target_user not in self._contexts
ContextMissing(ctxs, user) == user \notin DOMAIN ctxs

\* variant: the bundle is cached before it is complete
HalfBuiltCached(ctxs, user, coin) ==
    [a \in DOMAIN ctxs \cup {user} |->
        IF a = user THEN [client |-> <<user, 0>>, coin |-> coin] ELSE ctxs[a]]

\* the cache after setup or the strategy factory raised: the assignment to
\* self._contexts[target_user] is not reached
AfterFailedBuild(ctxs, user, coin) == ctxs

\* "Ensure per-account context": the cache and the build count afterwards,
\* and the exception if the build raised
EnsureContext(user, coin, has_equity, factory_ok) ==
    IF ~ContextMissing(contexts, user)
    THEN [contexts |-> contexts, constructions |-> constructions, err |-> "none"]
    ELSE IF Setup(has_equity) # "ok"
    THEN [contexts |-> AfterFailedBuild(contexts, user, coin), constructions |-> constructions,
          err |-> Setup(has_equity)]
    ELSE IF ~factory_ok
    THEN [contexts |-> AfterFailedBuild(contexts, user, coin), constructions |-> constructions,
          err |-> "FactoryError"]
    ELSE [contexts |-> [a \in DOMAIN contexts \cup {user} |->
                           IF a = user
                           THEN [client |-> <<user, constructions[user] + 1>>, coin |-> coin]
                           ELSE contexts[a]],
          constructions |-> [constructions EXCEPT ![user] = @ + 1],
          err |-> "none"]

\* SubscriptionInfo(id, type, params, status, subscription_id)
SubscriptionInfo(type, user, status, subscription_id) ==
    [type |-> type, user |-> user, status |-> status, subscription_id |-> subscription_id]

\* self.subscriptions[sub_id] = info
Registered(subs, id, info) ==
    [i \in DOMAIN subs \cup {id} |-> IF i = id THEN info ELSE subs[i]]

SmFails(op, params, user, message, counter, ids, ctxs, cons, subs, hl) ==
    /\ subscription_counter' = counter
    /\ issued' = issued \o ids
    /\ contexts' = ctxs
    /\ constructions' = cons
    /\ subscriptions' = subs
    /\ hl_subs' = hl
    /\ sm_call' = [NoSmCall EXCEPT !.op = op, !.params = <<params>>, !.user = user,
                                   !.message = message, !.result = "RuntimeError"]

SmRest == UNCHANGED <<stratVars, call, ops, err, wsVars, manager, adder>>

\* SubscriptionManager(...)
NewSubscriptionManager(kind) ==
    /\ manager = "none"
    /\ manager' = kind
    /\ sm_call' = [NoSmCall EXCEPT !.op = "__init__"]
    /\ UNCHANGED <<stratVars, call, ops, err, wsVars, subscriptions, subscription_counter,
                   issued, contexts, constructions, hl_subs, adder>>

\* the account store: alias -> Account row
AccountStore ==
    [alias \in {"main", "cold"} |->
        IF alias = "main" THEN [account_address |-> "a1", secret_key |-> "k1"]
        ELSE [account_address |-> "a2", secret_key |-> ""]]

\* the keys of a params dict that name the account; "none" for an absent key
Params(user, account_alias, account_address) ==
    [user |-> user, account_alias |-> account_alias, account_address |-> account_address]
UserParams(user) == Params(user, "none", "none")

\* add_subscription: target_user = params.get("user")
SingleTargetUser(params) == params.user

\* add_strategy_subscriptions: 'user' after "Resolve dynamic account alias";
\* store_ok is whether the session import and the query return
StrategyTargetUser(params, store_ok) ==
    IF /\ params.account_alias # "none"
       /\ params.user = NoUser
       /\ store_ok
       /\ params.account_alias \in DOMAIN AccountStore
       /\ AccountStore[params.account_alias].secret_key # ""
    THEN AccountStore[params.account_alias].account_address
    ELSE params.user

\* core add_subscription(subscription_type, params): params names `user` or
\* no user; has_equity, factory_ok and sub_ok are what setup, the strategy
\* factory and Info.subscribe do
AddSubscription(type, params, coin, has_equity, factory_ok, sub_ok) ==
    /\ manager = "core"
    /\ subscription_counter < MaxSubIds
    /\ LET g == GenerateSubscriptionId(subscription_counter)
           user == SingleTargetUser(params)
           e == EnsureContext(user, coin, has_equity, factory_ok)
       IN  IF user = NoUser
           THEN SmFails("add_subscription", params, user, "ValueError", g.counter, <<g.id>>,
                        contexts, constructions, subscriptions, hl_subs)
           ELSE IF e.err # "none"
           THEN SmFails("add_subscription", params, user, e.err, g.counter, <<g.id>>,
                        e.contexts, e.constructions, subscriptions, hl_subs)
           ELSE IF ~sub_ok
           THEN SmFails("add_subscription", params, user, "SubscribeError", g.counter, <<g.id>>,
                        e.contexts, e.constructions, subscriptions, hl_subs)
           ELSE /\ subscription_counter' = g.counter
                /\ issued' = Append(issued, g.id)
                /\ contexts' = e.contexts
                /\ constructions' = e.constructions
                /\ subscriptions' = Registered(subscriptions, g.id,
                                        SubscriptionInfo(type, user, "active", <<g.id>>))
                /\ hl_subs' = hl_subs \cup {[client |-> e.contexts[user].client, tag |-> g.id]}
                /\ sm_call' = [NoSmCall EXCEPT !.op = "add_subscription",
                                               !.params = <<params>>, !.user = user,
                                               !.result = "ok", !.ids = <<g.id>>]
    /\ SmRest

\* api add_subscription(subscription_type, params): a failed subscribe is
\* registered with status ERROR and its id is returned
ApiAddSubscription(type, user, sub_ok) ==
    /\ manager = "api"
    /\ subscription_counter < MaxSubIds
    /\ LET g == GenerateSubscriptionId(subscription_counter)
       IN  /\ subscription_counter' = g.counter
           /\ issued' = Append(issued, g.id)
           /\ subscriptions' = Registered(subscriptions, g.id,
                                   IF sub_ok
                                   THEN SubscriptionInfo(type, user, "active", <<g.id>>)
                                   ELSE SubscriptionInfo(type, user, "error", <<>>))
           /\ hl_subs' = IF sub_ok THEN hl_subs \cup {[client |-> ApiClient, tag |-> g.id]}
                         ELSE hl_subs
           /\ sm_call' = [NoSmCall EXCEPT !.op = "add_subscription", !.user = user,
                                          !.result = "ok", !.ids = <<g.id>>]
    /\ UNCHANGED <<contexts, constructions>>
    /\ SmRest

\* add_strategy_subscriptions(strategy_params): `user` is the address the
\* params name after the alias lookup, or no user
AddStrategySubscriptions(params, store_ok, coin, has_equity, factory_ok, candle_ok, fills_ok) ==
    /\ manager = "core"
    /\ subscription_counter + 2 <= MaxSubIds
    /\ LET user == StrategyTargetUser(params, store_ok)
           e == EnsureContext(user, coin, has_equity, factory_ok)
           g1 == GenerateSubscriptionId(subscription_counter)
           g2 == GenerateSubscriptionId(g1.counter)
           op == "add_strategy_subscriptions"
       IN  IF user = NoUser
           THEN SmFails(op, params, user, "ValueError", subscription_counter, <<>>,
                        contexts, constructions, subscriptions, hl_subs)
           ELSE IF e.err # "none"
           THEN SmFails(op, params, user, e.err, subscription_counter, <<>>,
                        e.contexts, e.constructions, subscriptions, hl_subs)
           ELSE LET client == e.contexts[user].client
                    subs1 == Registered(subscriptions, g1.id,
                                 SubscriptionInfo("candle", user, "active", <<g1.id>>))
                    hl1 == hl_subs \cup {[client |-> client, tag |-> g1.id]}
                IN  IF ~candle_ok
                    THEN SmFails(op, params, user, "SubscribeError", g1.counter, <<g1.id>>,
                                 e.contexts, e.constructions,
                                 subscriptions, hl_subs)
                    ELSE IF ~fills_ok
                    THEN SmFails(op, params, user, "SubscribeError", g2.counter, <<g1.id, g2.id>>,
                                 e.contexts, e.constructions,
                                 subs1, hl1)
                    ELSE /\ subscription_counter' = g2.counter
                         /\ issued' = issued \o <<g1.id, g2.id>>
                         /\ contexts' = e.contexts
                         /\ constructions' = e.constructions
                         /\ subscriptions' = Registered(subs1, g2.id,
                                 SubscriptionInfo("userFills", user, "active", <<g2.id>>))
                         /\ hl_subs' = hl1 \cup {[client |-> client, tag |-> g2.id]}
                         /\ sm_call' = [NoSmCall EXCEPT !.op = op, !.params = <<params>>,
                                                        !.user = user,
                                                        !.result = "ok",
                                                        !.ids = <<g1.id, g2.id>>]
    /\ SmRest

\* the client remove_subscription unsubscribes on, <<>> if it calls none: the
\* context of params['user'], or the api manager's one client
UnsubscribeTarget(subs, id) ==
    IF subs[id].subscription_id = <<>> THEN <<>>
    ELSE IF manager = "api" THEN <<ApiClient>>
    ELSE IF subs[id].user # NoUser /\ subs[id].user \in DOMAIN contexts
    THEN <<contexts[subs[id].user].client>>
    ELSE <<>>

\* variant: the entry is deleted before the unsubscribe is tried
DropsOnFailureToo(subs, id) == [i \in DOMAIN subs \ {id} |-> subs[i]]

\* the except branch of remove_subscription: status ERROR, the entry kept
MarkedError(subs, id) == [subs EXCEPT ![id].status = "error"]

\* remove_subscription(sub_id) on the table `subs` and the live client
\* subscriptions `hl`; unsub_ok is whether Info.unsubscribe returns
RemoveFrom(subs, hl, id, unsub_ok) ==
    IF id \notin DOMAIN subs
    THEN [subscriptions |-> subs, hl_subs |-> hl, removed |-> <<>>, failed |-> <<id>>,
          unsubscribed |-> <<>>, raised |-> <<>>]
    ELSE LET to == UnsubscribeTarget(subs, id)
         IN  IF to # <<>> /\ ~unsub_ok
             THEN [subscriptions |-> MarkedError(subs, id), hl_subs |-> hl, removed |-> <<>>,
                   failed |-> <<id>>, unsubscribed |-> to, raised |-> <<id>>]
             ELSE [subscriptions |-> [i \in DOMAIN subs \ {id} |-> subs[i]],
                   hl_subs |-> IF to = <<>> THEN hl
                               ELSE hl \ {[client |-> to[1], tag |-> subs[id].subscription_id[1]]},
                   removed |-> <<id>>, failed |-> <<>>, unsubscribed |-> to, raised |-> <<>>]

\* the loops of remove_strategy_subscriptions and clear_all_subscriptions:
\* remove_subscription for each id of `ids` in order, whatever the earlier
\* ones returned; the unsubscribe raises for the ids in `fails`
RECURSIVE RemoveEach(_, _, _)
RemoveEach(acc, ids, fails) ==
    IF ids = <<>> THEN acc
    ELSE LET r == RemoveFrom(acc.subscriptions, acc.hl_subs, Head(ids), Head(ids) \notin fails)
         IN  RemoveEach([subscriptions |-> r.subscriptions,
                         hl_subs |-> r.hl_subs,
                         removed |-> acc.removed \o r.removed,
                         failed |-> acc.failed \o r.failed,
                         unsubscribed |-> acc.unsubscribed \o r.unsubscribed,
                         raised |-> acc.raised \o r.raised],
                        Tail(ids), fails)

RemoveAll(ids, fails) ==
    RemoveEach([subscriptions |-> subscriptions, hl_subs |-> hl_subs, removed |-> <<>>,
                failed |-> <<>>, unsubscribed |-> <<>>, raised |-> <<>>], ids, fails)

\* list(self.subscriptions.keys()): the keys in insertion order, which is the
\* order of their numbers
KeysInOrder(subs) ==
    [k \in 1 .. Cardinality(DOMAIN subs) |->
        CHOOSE i \in DOMAIN subs : Cardinality({j \in DOMAIN subs : j[2] < i[2]}) = k - 1]

PyBool(b) == IF b THEN "True" ELSE "False"

\* remove_subscription(sub_id), core and api
RemoveSubscription(id, unsub_ok) ==
    /\ manager \in {"core", "api"}
    /\ LET r == RemoveFrom(subscriptions, hl_subs, id, unsub_ok)
       IN  /\ subscriptions' = r.subscriptions
           /\ hl_subs' = r.hl_subs
           /\ sm_call' = [NoSmCall EXCEPT !.op = "remove_subscription", !.target = <<id>>,
                                          !.result = PyBool(r.removed # <<>>),
                                          !.unsubscribed = r.unsubscribed,
                                          !.raised = r.raised]
    /\ UNCHANGED <<subscription_counter, issued, contexts, constructions>>
    /\ SmRest

\* variant: the loop stops at the first id that is not removed
StopsAtFirstFailure(ids, fails) ==
    IF ids # <<>> /\ RemoveAll(<<Head(ids)>>, fails).removed = <<>>
    THEN RemoveAll(<<Head(ids)>>, fails)
    ELSE RemoveAll(ids, fails)

\* the ids remove_strategy_subscriptions and clear_all_subscriptions go through
Attempted(ids, fails) == RemoveAll(ids, fails)

\* remove_strategy_subscriptions(subscription_ids): the dict's two ids
RemoveStrategySubscriptions(candle_id, fills_id, fails) ==
    /\ manager = "core"
    /\ LET r == Attempted(<<candle_id, fills_id>>, fails)
       IN  /\ subscriptions' = r.subscriptions
           /\ hl_subs' = r.hl_subs
           /\ sm_call' = [NoSmCall EXCEPT !.op = "remove_strategy_subscriptions",
                                          !.target = <<candle_id, fills_id>>,
                                          !.result = PyBool(r.failed = <<>>),
                                          !.ids = r.removed,
                                          !.unsubscribed = r.unsubscribed,
                                          !.raised = r.raised]
    /\ UNCHANGED <<subscription_counter, issued, contexts, constructions>>
    /\ SmRest

\* clear_all_subscriptions(), core and api: count is the number of
\* remove_subscription calls that returned True
ClearAllSubscriptions(fails) ==
    /\ manager \in {"core", "api"}
    /\ LET r == Attempted(KeysInOrder(subscriptions), fails)
       IN  /\ subscriptions' = r.subscriptions
           /\ hl_subs' = r.hl_subs
           /\ sm_call' = [NoSmCall EXCEPT !.op = "clear_all_subscriptions",
                                          !.target = KeysInOrder(subscriptions),
                                          !.result = "ok",
                                          !.ids = r.removed,
                                          !.count = Len(r.removed),
                                          !.unsubscribed = r.unsubscribed,
                                          !.raised = r.raised]
    /\ UNCHANGED <<subscription_counter, issued, contexts, constructions>>
    /\ SmRest

Statuses == {"active", "inactive", "error"}

\* update_subscription_status(sub_id, status)
UpdateSubscriptionStatus(id, status) ==
    /\ manager \in {"core", "api"}
    /\ subscriptions' = IF id \in DOMAIN subscriptions
                        THEN [subscriptions EXCEPT ![id].status = status]
                        ELSE subscriptions
    /\ sm_call' = [NoSmCall EXCEPT !.op = "update_subscription_status", !.target = <<id>>,
                                   !.result = "ok"]
    /\ UNCHANGED <<subscription_counter, issued, contexts, constructions, hl_subs>>
    /\ SmRest

CountWithStatus(subs, status) == Cardinality({i \in DOMAIN subs : subs[i].status = status})

StatsTotal(subs) == Cardinality(DOMAIN subs)

\* get_subscription_stats()
SubscriptionStats(subs) ==
    [total |-> StatsTotal(subs),
     active |-> CountWithStatus(subs, "active"),
     inactive |-> CountWithStatus(subs, "inactive"),
     error |-> CountWithStatus(subs, "error")]

GetSubscriptionStats ==
    /\ manager \in {"core", "api"}
    /\ sm_call' = [NoSmCall EXCEPT !.op = "get_subscription_stats", !.result = "ok",
                                   !.stats = <<SubscriptionStats(subscriptions)>>]
    /\ UNCHANGED <<subscriptions, subscription_counter, issued, contexts, constructions, hl_subs>>
    /\ SmRest

\* <<has_equity, factory_ok>>: the factory is called only after setup returned;
\* <<candle_ok, fills_ok>>: the second subscribe only after the first returned
BuildOutcomes == {<<TRUE, TRUE>>, <<FALSE, TRUE>>, <<TRUE, FALSE>>}
SubscribeOutcomes == {<<TRUE, TRUE>>, <<FALSE, TRUE>>, <<TRUE, FALSE>>}

ManagerNext ==
    \/ \E kind \in {"core", "api"} : NewSubscriptionManager(kind)
    \/ \E type \in SingleTypes, user \in Addresses \cup {NoUser}, coin \in Symbols,
          b \in BuildOutcomes, sub_ok \in BOOLEAN :
          AddSubscription(type, UserParams(user), coin, b[1], b[2], sub_ok)
    \/ \E type \in SingleTypes, user \in Addresses, sub_ok \in BOOLEAN :
          ApiAddSubscription(type, user, sub_ok)
    \/ \E user \in Addresses \cup {NoUser}, coin \in Symbols, b \in BuildOutcomes,
          s \in SubscribeOutcomes :
          AddStrategySubscriptions(UserParams(user), TRUE, coin, b[1], b[2], s[1], s[2])
    \/ \E id \in SubIds, unsub_ok \in BOOLEAN : RemoveSubscription(id, unsub_ok)
    \/ \E candle_id \in SubIds, fills_id \in SubIds, fails \in SUBSET SubIds :
          /\ fails \subseteq {candle_id, fills_id}
          /\ RemoveStrategySubscriptions(candle_id, fills_id, fails)
    \/ \E fails \in SUBSET DOMAIN subscriptions : ClearAllSubscriptions(fails)
    \/ \E id \in SubIds, status \in {"inactive"} : UpdateSubscriptionStatus(id, status)
    \/ GetSubscriptionStats

\* a Session Manager of either class, called from one thread
ManagerSpec == WsInit /\ [][ManagerNext]_vars

\* the params the endpoints pass: any of user, account_alias, account_address
AllParams ==
    {Params(u, al, ad) : u \in Addresses \cup {NoUser},
                         al \in {"none", "main", "cold", "ghost"},
                         ad \in Addresses \cup {"none"}}

ResolveNext ==
    \/ NewSubscriptionManager("core")
    \/ \E type \in SubTypes, params \in AllParams, sub_ok \in BOOLEAN :
          AddSubscription(type, params, "ETH", TRUE, TRUE, sub_ok)
    \/ \E params \in AllParams, s \in SubscribeOutcomes :
          AddStrategySubscriptions(params, TRUE, "ETH", TRUE, TRUE, s[1], s[2])
    \/ \E id \in SubIds : RemoveSubscription(id, TRUE)

\* a core manager called with every shape of params, the account store
\* answering
ResolveSpec == WsInit /\ [][ResolveNext]_vars

(***************************************************************************)
(* add_subscription called from several threads (the start/stop endpoints  *)
(* of api/strategy_records.py are plain `def`, which the server runs in a  *)
(* thread pool).  The manager holds no lock, so a thread can be preempted  *)
(* between any two of the steps below; `self._subscription_counter += 1`   *)
(* is a load and a store.                                                   *)
(***************************************************************************)
RaceRest == UNCHANGED <<stratVars, call, ops, err, wsVars, manager, sm_call>>

\* a thread calls add_subscription(type, {'user': user, ...})
AddBegin(t, user) ==
    /\ manager = "core"
    /\ adder[t].pc = "idle"
    /\ adder' = [adder EXCEPT ![t] = [IdleAdder EXCEPT !.pc = "load", !.user = user]]
    /\ UNCHANGED <<subscriptions, subscription_counter, issued, contexts, constructions,
                   hl_subs>>
    /\ RaceRest

\* self._subscription_counter += 1, the load
AddLoadCounter(t) ==
    /\ adder[t].pc = "load"
    /\ adder' = [adder EXCEPT ![t].pc = "store", ![t].loaded = subscription_counter]
    /\ UNCHANGED <<subscriptions, subscription_counter, issued, contexts, constructions,
                   hl_subs>>
    /\ RaceRest

\* self._subscription_counter += 1, the store
AddStoreCounter(t) ==
    /\ adder[t].pc = "store"
    /\ subscription_counter' = GenerateSubscriptionId(adder[t].loaded).counter
    /\ adder' = [adder EXCEPT ![t].pc = "read"]
    /\ UNCHANGED <<subscriptions, issued, contexts, constructions, hl_subs>>
    /\ RaceRest

\* return f"sub_{self._subscription_counter}"
AddReadId(t) ==
    /\ adder[t].pc = "read"
    /\ adder' = [adder EXCEPT ![t].pc = "check",
                              ![t].id = <<SubscriptionId(subscription_counter)>>]
    /\ issued' = Append(issued, SubscriptionId(subscription_counter))
    /\ UNCHANGED <<subscriptions, subscription_counter, contexts, constructions, hl_subs>>
    /\ RaceRest

\* if target_user not in self._contexts
AddCheckContext(t) ==
    /\ adder[t].pc = "check"
    /\ adder' = [adder EXCEPT ![t].pc = IF ContextMissing(contexts, adder[t].user)
                                        THEN "build" ELSE "subscribe"]
    /\ UNCHANGED <<subscriptions, subscription_counter, issued, contexts, constructions,
                   hl_subs>>
    /\ RaceRest

\* setup(...) and strategy_factory(...) return or raise; if they return,
\* self._contexts[target_user] = {...}
AddBuildContext(t, coin, has_equity, factory_ok) ==
    /\ adder[t].pc = "build"
    /\ IF Setup(has_equity) = "ok" /\ factory_ok
       THEN /\ contexts' = [a \in DOMAIN contexts \cup {adder[t].user} |->
                               IF a = adder[t].user
                               THEN [client |-> <<a, constructions[a] + 1>>, coin |-> coin]
                               ELSE contexts[a]]
            /\ constructions' = [constructions EXCEPT ![adder[t].user] = @ + 1]
            /\ adder' = [adder EXCEPT ![t].pc = "subscribe"]
       ELSE /\ adder' = [adder EXCEPT ![t].pc = "done", ![t].result = "RuntimeError"]
            /\ UNCHANGED <<contexts, constructions>>
    /\ UNCHANGED <<subscriptions, subscription_counter, issued, hl_subs>>
    /\ RaceRest

\* ctx = self._contexts[target_user]; ctx['info'].subscribe(...)
AddSubscribe(t, sub_ok) ==
    /\ adder[t].pc = "subscribe"
    /\ IF sub_ok
       THEN /\ hl_subs' = hl_subs \cup {[client |-> contexts[adder[t].user].client,
                                        tag |-> adder[t].id[1]]}
            /\ adder' = [adder EXCEPT ![t].pc = "register",
                                      ![t].client = <<contexts[adder[t].user].client>>]
       ELSE /\ adder' = [adder EXCEPT ![t].pc = "done", ![t].result = "RuntimeError"]
            /\ UNCHANGED hl_subs
    /\ UNCHANGED <<subscriptions, subscription_counter, issued, contexts, constructions>>
    /\ RaceRest

\* self.subscriptions[sub_id] = subscription_info; return sub_id
AddRegister(t) ==
    /\ adder[t].pc = "register"
    /\ subscriptions' = Registered(subscriptions, adder[t].id[1],
                            SubscriptionInfo("candle", adder[t].user, "active", adder[t].id))
    /\ adder' = [adder EXCEPT ![t].pc = "done", ![t].result = "ok"]
    /\ UNCHANGED <<subscription_counter, issued, contexts, constructions, hl_subs>>
    /\ RaceRest

RaceNext ==
    \/ NewSubscriptionManager("core")
    \/ \E t \in Adders :
          \/ \E user \in Addresses : AddBegin(t, user)
          \/ AddLoadCounter(t)
          \/ AddStoreCounter(t)
          \/ AddReadId(t)
          \/ AddCheckContext(t)
          \/ \E coin \in Symbols, b \in BuildOutcomes : AddBuildContext(t, coin, b[1], b[2])
          \/ \E sub_ok \in BOOLEAN : AddSubscribe(t, sub_ok)
          \/ AddRegister(t)

\* one core manager and two threads that each call add_subscription once
RaceSpec == WsInit /\ [][RaceNext]_vars

\* the indicators constructed: periods 1 .. MaxPeriod, k in {0, 2, 2.5}
IndPeriods == 0 .. MaxPeriod
IndMultipliers == {[num |-> 0, den |-> 1], [num |-> 2, den |-> 1],
                   [num |-> bb_std_dev_num, den |-> bb_std_dev_den]}
\* the values fed: 1.00, 2.00, 3.00
IndValues == {1 * PxScale, 2 * PxScale, 3 * PxScale}

\* a BollingerBands object after construction; call.since keeps the values
\* fed since construction or the last reset
IndInit ==
    /\ phase = "new"
    /\ symbol = "ETH"
    /\ target_candle_unit = target_candle_unit_default
    /\ strategy_state = "NEUTRAL"
    /\ latest_candle_watermark = EpochWatermark
    /\ current_candle = <<>>
    /\ last_full_candle = <<>>
    /\ startup_complete = FALSE
    /\ \E period \in IndPeriods, k \in IndMultipliers :
          /\ ~BollingerBands_init_raises(period, k)
          /\ bollinger_bands = BollingerBands_init(period, k)
    /\ position = [c \in Symbols |-> 0]
    /\ call = [op |-> "init", since |-> <<>>, resets |-> 0, ret |-> <<>>]
    /\ ops = <<>>
    /\ err = "none"
    /\ WsInitial

IndUnchanged ==
    UNCHANGED <<phase, symbol, target_candle_unit, strategy_state, latest_candle_watermark,
                current_candle, last_full_candle, startup_complete, position, ops, err,
                wsVars, smVars>>

\* BollingerBands.update(new_value)
Update ==
    /\ call.op \in {"init", "update", "reset"}
    /\ Len(call.since) < MaxUpdates
    /\ \E new_value \in IndValues :
          LET bb == BollingerBands_update(bollinger_bands, new_value)
          IN  /\ bollinger_bands' = bb
              /\ call' = [op |-> "update", since |-> Append(call.since, new_value),
                          resets |-> call.resets,
                          ret |-> <<bb.middle_band, bb.upper_band, bb.lower_band>>]
    /\ IndUnchanged

\* BollingerBands.reset()
Reset ==
    /\ call.op \in {"init", "update", "reset"}
    /\ call.resets < MaxResets
    /\ bollinger_bands' = BollingerBands_reset(bollinger_bands)
    /\ call' = [op |-> "reset", since |-> <<>>, resets |-> call.resets + 1, ret |-> <<>>]
    /\ IndUnchanged

\* a BollingerBands object under any sequence of update and reset calls
IndSpec == IndInit /\ [][Update \/ Reset]_vars

\* the aggregator configurations fed: the target period and unit, and whether
\* the small candles carry their last millisecond or the next start as end
AggConfigs ==
    {[target_period |-> 1, target_unit |-> "h", inclusive |-> TRUE],
     [target_period |-> 1, target_unit |-> "h", inclusive |-> FALSE],
     [target_period |-> 2, target_unit |-> "h", inclusive |-> TRUE],
     [target_period |-> 90, target_unit |-> "m", inclusive |-> TRUE]}

\* the small candle of a slot, as the event handed to aggregate_ohlcv
SmallCandle(cfg, slot, o, c) ==
    OHLCVEvent_from_hyperliquid_message(
        [CandleData(slot, c) EXCEPT !.o = o, !.h = Max(o, c), !.l = Min(o, c),
                                    !.T = IF cfg.inclusive THEN @ ELSE @ + 1])

\* a caller of aggregate_ohlcv that has no aggregate yet
AggInit ==
    /\ phase = "new"
    /\ SetSelfInit("ETH")
    /\ position = [c \in Symbols |-> 0]
    /\ \E cfg \in AggConfigs : call = [op |-> "aggregator", config |-> cfg, fed |-> <<>>]
    /\ ops = <<>>
    /\ err = "none"
    /\ WsInitial

\* one call of aggregate_ohlcv with a later small candle, the returned
\* aggregate passed back on the next call; call.fed keeps every candle fed with
\* the is_complete and the aggregate returned for it
Feed ==
    /\ call.op \in {"aggregator", "aggregate_ohlcv"}
    /\ \E slot \in Slots, o \in Prices, c \in Prices :
          LET new_candle == SmallCandle(call.config, slot, o, c)
              out == aggregate_ohlcv(new_candle, current_candle,
                                     call.config.target_period, call.config.target_unit)
          IN  /\ call.fed # <<>> =>
                    new_candle.start_time > call.fed[Len(call.fed)].candle.start_time
              /\ current_candle' = out.candle
              /\ err' = IF out.raised THEN "ValueError" ELSE "none"
              /\ call' = [op |-> "aggregate_ohlcv", config |-> call.config,
                          fed |-> Append(call.fed,
                                         [candle |-> new_candle,
                                          is_complete |-> out.is_complete,
                                          aggregate |-> out.candle[1]])]
    /\ UNCHANGED <<phase, symbol, target_candle_unit, strategy_state, latest_candle_watermark,
                   last_full_candle, startup_complete, bollinger_bands, position, ops,
                   wsVars, smVars>>

\* aggregate_ohlcv fed sequences of small candles with increasing start times
AggSpec == AggInit /\ [][Feed]_vars

\* _on_message hands one inbound frame to MeanReversionBB.process_message,
\* registered as a handler (ws_client.py 201-215)
Deliver ==
    /\ phase = "live"
    /\ \E message \in Messages :
          \E nowv \in ClockReadings(message) :
             LET out == process_message(Self, message, nowv, position)
             IN  /\ SetSelf(out.self)
                 /\ ops' = out.ops
                 /\ err' = HandlerCallRaises(out.err)
                 /\ call' = [op |-> "on_message", message |-> message,
                             now |-> nowv, pre |-> strategy_state, raised |-> out.err]
    /\ UNCHANGED <<phase, position, wsVars, smVars>>

\* the strategy fed by the dispatch of the protocol client
DeliverySpec == StratInit /\ [][StartUp \/ Deliver]_vars

Spec == StratInit /\ [][StratNext]_vars

(***************************************************************************)
(* BasicOrderSystem.cancel_all_orders (order_system.py) on its own: the    *)
(* exchange keeps a book of open orders, call.open; cancel_all_orders      *)
(* lists it and cancels the listed orders one by one.                      *)
(***************************************************************************)
MaxOpen == 3        \* most orders ever put on the book of one account

\* what exchange.cancel does for one order: acknowledges it, answers nothing
\* or another status, or raises
CancelReplies == {"ok", "err", "raise"}

\* symbol = None (or "") of get_open_orders / cancel_all_orders
NoSymbol == ""

\* the record of one exchange.cancel(coin, oid) call
Cancel(coin, oid) == [op |-> "cancel", coin |-> coin, oid |-> oid]

\* [o for o in orders if o.get("coin") == symbol]
RECURSIVE OfCoin(_, _)
OfCoin(orders, sym) ==
    IF orders = <<>> THEN <<>>
    ELSE IF Head(orders).coin = sym THEN <<Head(orders)>> \o OfCoin(Tail(orders), sym)
    ELSE OfCoin(Tail(orders), sym)

\* BasicOrderSystem.get_open_orders: [] when info.open_orders raises
get_open_orders(open, sym, lists_ok) ==
    IF ~lists_ok THEN <<>>
    ELSE IF sym # NoSymbol THEN OfCoin(open, sym)
    ELSE open

\* the ids of the listed orders
Oids(orders) == {orders[i].oid : i \in 1 .. Len(orders)}

\* a variant of the loop that gives up at the first cancel that raises
StopsAtFirstRaise(res, rest) == IF res = "raise" THEN <<>> ELSE rest

\* the orders the loop still visits after one cancel answered res: the inner
\* except logs and the loop goes on
ContinueAfter(res, rest) == rest

\* res and res.get("status") == "ok"
Acknowledged(res) == res = "ok"

\* the for loop of cancel_all_orders over the listed orders
RECURSIVE CancelEach(_, _, _, _)
CancelEach(orders, reply, count, cancels) ==
    IF orders = <<>> THEN [ret |-> count, attempts |-> cancels]
    ELSE CancelEach(ContinueAfter(reply[Head(orders).oid], Tail(orders)), reply,
                    IF Acknowledged(reply[Head(orders).oid]) THEN count + 1 ELSE count,
                    Append(cancels, Cancel(Head(orders).coin, Head(orders).oid)))

\* BasicOrderSystem.cancel_all_orders(symbol)
cancel_all_orders(open, sym, lists_ok, reply) ==
    CancelEach(get_open_orders(open, sym, lists_ok), reply, 0, <<>>)

\* the book after the cancels: an acknowledged cancel takes the order off
RECURSIVE Remaining(_, _, _)
Remaining(open, cancels, reply) ==
    IF open = <<>> THEN <<>>
    ELSE IF \E i \in 1 .. Len(cancels) :
               cancels[i].oid = Head(open).oid /\ Acknowledged(reply[Head(open).oid])
         THEN Remaining(Tail(open), cancels, reply)
    ELSE <<Head(open)>> \o Remaining(Tail(open), cancels, reply)

\* an order system whose account has no open order yet
BookInit ==
    /\ phase = "new"
    /\ SetSelfInit("ETH")
    /\ position = [c \in Symbols |-> 0]
    /\ call = [op |-> "order_system", open |-> <<>>, placed |-> 0]
    /\ ops = <<>>
    /\ err = "none"
    /\ WsInitial

BookRest ==
    UNCHANGED <<stratVars, wsVars, smVars>>

\* a limit order rests on the book of the account
OrderRests ==
    /\ call.placed < MaxOpen
    /\ \E coin \in Symbols :
          call' = [op |-> "order", placed |-> call.placed + 1,
                   open |-> Append(call.open, [coin |-> coin, oid |-> call.placed + 1])]
    /\ ops' = <<>>
    /\ err' = "none"
    /\ BookRest

\* one call of cancel_all_orders(symbol): call.before is the book it found
CancelAllOrders ==
    /\ \E sym \in Symbols \cup {NoSymbol}, lists_ok \in BOOLEAN :
       \E reply \in [Oids(get_open_orders(call.open, sym, lists_ok)) -> CancelReplies] :
          LET out == cancel_all_orders(call.open, sym, lists_ok, reply)
          IN  /\ ops' = out.attempts
              /\ call' = [op |-> "cancel_all_orders", placed |-> call.placed,
                          symbol |-> sym, lists_ok |-> lists_ok, reply |-> reply,
                          before |-> call.open, ret |-> out.ret,
                          open |-> Remaining(call.open, out.attempts, reply)]
    /\ err' = "none"
    /\ BookRest

BookNext == OrderRests \/ CancelAllOrders

\* an order system under any sequence of resting orders and cancel_all_orders calls
BookSpec == BookInit /\ [][BookNext]_vars

(***************************************************************************)
(* The strategy constructed with any target candle unit.                   *)
(***************************************************************************)
\* the target_candle_unit arguments: the default and weeks, which
\* candle_helpers does not support
TargetUnits == {target_candle_unit_default, "w"}

\* MeanReversionBB.__init__ called with any of the units, on a flat account
UnitInit ==
    /\ phase = "new"
    /\ \E unit \in TargetUnits : SetSelfInitWith("ETH", unit)
    /\ position = [c \in Symbols |-> 0]
    /\ call = NoCall
    /\ ops = <<>>
    /\ err = "none"
    /\ WsInitial

\* construction with any unit, then the live messages
UnitSpec == UnitInit /\ [][StartUp \/ ProcessMessage]_vars

(***************************************************************************)
(* The startup replay with the reply of candles_snapshot kept in view:     *)
(* call.hist is the history the strategy was constructed on.               *)
(***************************************************************************)
\* MeanReversionBB.__init__ on a flat account
ReplayInit ==
    /\ phase = "new"
    /\ SetSelfInit("ETH")
    /\ position = [c \in Symbols |-> 0]
    /\ call = NoCall
    /\ ops = <<>>
    /\ err = "none"
    /\ WsInitial

\* construction, the history recorded
StartUpOn ==
    \E hist \in Histories(MaxHist, 0) :
       /\ StartUpFrom(hist)
       /\ call' = [op |-> "start_up", pre |-> strategy_state, hist |-> hist]

\* the last candle of the history arrives as a live candle message, any
\* number of times
LastCandleLive ==
    /\ phase = "live"
    /\ call.hist # <<>>
    /\ LET message == [channel |-> "candle", data |-> call.hist[Len(call.hist)]]
       IN  \E nowv \in ClockReadings(message) :
              /\ ProcessMessageFrom(message, nowv)
              /\ call' = [op |-> "process_message", message |-> message,
                          now |-> nowv, pre |-> strategy_state, hist |-> call.hist]

\* the replay of any history, then its last candle live
ReplaySpec == ReplayInit /\ [][StartUpOn \/ LastCandleLive]_vars

(***************************************************************************)
(* normalize_timestamp (candle_helpers.py) on its own.                     *)
(***************************************************************************)
\* the timestamps normalised: hours 0, 1 and 25, minutes 0, 1 and 45, seconds
\* 0, 1 and 30 after the epoch
NormTimes ==
    {hh * HourMs + mm * MinuteMs + ss * SecondMs :
        hh \in {0, 1, 25}, mm \in {0, 1, 45}, ss \in {0, 1, 30}}

\* the target periods
NormPeriods == {1, 2, 15}

\* a caller about to normalise a timestamp for a supported unit
NormInit ==
    /\ phase = "new"
    /\ SetSelfInit("ETH")
    /\ position = [c \in Symbols |-> 0]
    /\ \E ts \in NormTimes, period \in NormPeriods, unit \in SupportedUnits :
          call = [op |-> "input", timestamp |-> ts, period |-> period, unit |-> unit]
    /\ ops = <<>>
    /\ err = "none"
    /\ WsInitial

\* normalize_timestamp(timestamp, period, unit)
Normalize ==
    /\ call.op = "input"
    /\ call' = [op |-> "normalize_timestamp", timestamp |-> call.timestamp,
                period |-> call.period, unit |-> call.unit,
                ret |-> normalize_timestamp(call.timestamp, call.period, call.unit)]
    /\ UNCHANGED <<stratVars, ops, err, wsVars, smVars>>

\* normalize_timestamp applied to a timestamp it returned
NormalizeAgain ==
    /\ call.op \in {"normalize_timestamp", "renormalize"}
    /\ call' = [op |-> "renormalize", timestamp |-> call.ret[1],
                period |-> call.period, unit |-> call.unit,
                ret |-> normalize_timestamp(call.ret[1], call.period, call.unit)]
    /\ UNCHANGED <<stratVars, ops, err, wsVars, smVars>>

\* normalize_timestamp over the supported units
NormSpec == NormInit /\ [][Normalize \/ NormalizeAgain]_vars

(***************************************************************************)
(* Vocabulary of the properties: the step just taken, read from call'.     *)
(***************************************************************************)
\* the step handles a candle message
CandleStep == call'.op = "process_message" /\ call'.message.channel = "candle"

\* the step handles a userFills message
FillStep == call'.op = "process_message" /\ call'.message.channel = "userFills"

\* the step handles a userFills message that is not a snapshot
LiveFillStep == FillStep /\ ~call'.message.data.isSnapshot

\* the candle of the step starts after the watermark and has ended
Accepted ==
    /\ CandleStep
    /\ call'.message.data.t > latest_candle_watermark
    /\ call'.message.data.T < call'.now

\* the accepted candle of the step reaches the end of the aggregate window
Completed ==
    /\ Accepted
    /\ current_candle' # <<>>
    /\ call'.message.data.T >= current_candle'[1].end_time

\* the step is MeanReversionBB.__init__ running _start_up
StartUpStep == call'.op = "start_up"

\* the signed quantity of the first fill of the step's userFills message
HasFill == LET f == call'.message.data.fills
           IN  f.pytype = "dict" \/ f.items # <<>>
FirstFill == LET f == call'.message.data.fills
             IN  IF f.pytype = "dict" THEN f.value ELSE f.items[1]
FilledQuantity == IF FirstFill.side = "B" THEN FirstFill.sz ELSE 0 - FirstFill.sz

\* the exchange calls of the step end with seq, and only cancels come before it
EndsWith(seq) ==
    LET n == Len(ops')
        k == Len(seq)
    IN  /\ n >= k
        /\ SubSeq(ops', n - k + 1, n) = seq
        /\ \A i \in 1 .. (n - k) : ops'[i] = CancelAll(symbol)

(***************************************************************************)
(* Properties of the strategy.                                             *)
(***************************************************************************)
\* C1: while NEUTRAL, a non-snapshot userFills message moves the strategy to
\* LONG if the filled quantity is positive and to SHORT if it is negative; a
\* zero quantity is a fatal error and the state stays NEUTRAL.
C1_NeutralFillOpensPosition ==
    [][(LiveFillStep /\ HasFill /\ strategy_state = "NEUTRAL") =>
          /\ FilledQuantity > 0 => strategy_state' = "LONG"
          /\ FilledQuantity < 0 => strategy_state' = "SHORT"
          /\ FilledQuantity = 0 => (err' = "ValueError" /\ strategy_state' = "NEUTRAL")]_vars

\* C2: while LONG or SHORT, any non-snapshot userFills message moves the
\* strategy to NEUTRAL and cancels all orders of the symbol, placing no order.
C2_FillFlattens ==
    [][(LiveFillStep /\ HasFill /\ strategy_state \in {"LONG", "SHORT"}) =>
          /\ strategy_state' = "NEUTRAL"
          /\ ops' = <<CancelAll(symbol)>>
          /\ err' = "none"]_vars

\* the band values after the step, where the indicator is ready
Lower == bollinger_bands'.lower_band[1]
Middle == bollinger_bands'.middle_band[1]
Upper == bollinger_bands'.upper_band[1]
Ready == bollinger_bands'.middle_band # <<>>
Mult(x) == (x * multiplier_num) \div multiplier_den

\* C5: an accepted candle that completes the aggregate with the indicator
\* ready while NEUTRAL cancels all orders of the symbol and then submits
\* exactly two orders: a GTC buy limit at the lower band of size
\* trade_size_usd / lower and a GTC sell limit at the upper band of size
\* trade_size_usd / upper, prices and sizes rounded to their precisions.
C5_NeutralOrders ==
    [][(Completed /\ Ready /\ strategy_state = "NEUTRAL") =>
          /\ err' = "none"
          /\ strategy_state' = "NEUTRAL"
          /\ ops' = <<CancelAll(symbol),
                      LimitOrder(symbol, TRUE,
                                 RoundValues(DivToSize(trade_size_usd, Lower), SzUnit),
                                 RoundValues(Lower, PxUnit)),
                      LimitOrder(symbol, FALSE,
                                 RoundValues(DivToSize(trade_size_usd, Upper), SzUnit),
                                 RoundValues(Upper, PxUnit))>>]_vars

\* a completed aggregate has just placed the two limit orders of NEUTRAL
C5_Witness ==
    /\ call.op = "process_message"
    /\ call.message.channel = "candle"
    /\ call.pre = "NEUTRAL"
    /\ err = "none"
    /\ Len(ops) = 3
    /\ ops[2].order_type.kind = "limit" /\ ops[2].is_buy
    /\ ops[3].order_type.kind = "limit" /\ ~ops[3].is_buy
    /\ ops[2].limit_px < ops[3].limit_px

\* the LONG order logic runs in the step: an aggregate completes while LONG, a
\* fill moves NEUTRAL to LONG, or startup finds a positive position
LongLogicRuns ==
    \/ Completed /\ Ready /\ strategy_state = "LONG"
    \/ LiveFillStep /\ HasFill /\ strategy_state = "NEUTRAL" /\ FilledQuantity > 0
    \/ StartUpStep /\ Ready /\ position["ETH"] > 0

\* C6: whenever the LONG order logic runs it first cancels all orders of the
\* symbol and then submits exactly two sell market-on-trigger orders sized to
\* the full position: a stop at lower - (middle - lower) * stop_mult and a
\* take-profit at lower + (middle - lower) * tp_mult.
C6_LongOrders ==
    [][LongLogicRuns =>
          /\ err' = "none"
          /\ Ready
          /\ EndsWith(<<CancelAll(symbol),
                        TriggerOrder(symbol, FALSE, position[symbol],
                                     RoundValues(Lower - Mult(Middle - Lower), PxUnit),
                                     RoundValues(Lower - Mult(Middle - Lower), PxUnit), "sl"),
                        TriggerOrder(symbol, FALSE, position[symbol],
                                     RoundValues(Lower + Mult(Middle - Lower), PxUnit),
                                     RoundValues(Lower + Mult(Middle - Lower), PxUnit), "tp")>>)]_vars

\* the SHORT order logic runs in the step
ShortLogicRuns ==
    \/ Completed /\ Ready /\ strategy_state = "SHORT"
    \/ LiveFillStep /\ HasFill /\ strategy_state = "NEUTRAL" /\ FilledQuantity < 0
    \/ StartUpStep /\ Ready /\ position["ETH"] < 0

\* C7: whenever the SHORT order logic runs it first cancels all orders of the
\* symbol and then submits exactly two buy market-on-trigger orders sized to
\* the full position: a stop at upper + (upper - middle) * stop_mult and a
\* take-profit at upper - (upper - middle) * tp_mult.  The take-profit trigger
\* price is accepted at either rounding precision.
C7_ShortOrders ==
    [][ShortLogicRuns =>
          /\ err' = "none"
          /\ Ready
          /\ \E unit \in {PxUnit, DefaultUnit} :
                EndsWith(<<CancelAll(symbol),
                           TriggerOrder(symbol, TRUE, position[symbol],
                                        RoundValues(Upper + Mult(Upper - Middle), PxUnit),
                                        RoundValues(Upper + Mult(Upper - Middle), PxUnit), "sl"),
                           TriggerOrder(symbol, TRUE, position[symbol],
                                        RoundValues(Upper - Mult(Upper - Middle), PxUnit),
                                        RoundValues(Upper - Mult(Upper - Middle), unit), "tp")>>)]_vars

\* C8: a candle message cancels or submits an order only if it completes the
\* aggregate and the indicator is ready after the update; while the window
\* holds fewer than N closes no candle message cancels or submits anything.
C8_OrdersOnlyWhenReady ==
    [][CandleStep =>
          /\ ops' # <<>> => (Completed /\ Ready
                             /\ Len(bollinger_bands'.data_window) = ma_lookback_periods)
          /\ Len(bollinger_bands'.data_window) < ma_lookback_periods => ops' = <<>>]_vars

\* a candle has just completed an aggregate and run the order logic on a full
\* window
C8_Witness ==
    /\ call.op = "process_message"
    /\ call.message.channel = "candle"
    /\ ops # <<>>
    /\ err = "none"
    /\ bollinger_bands.middle_band # <<>>
    /\ Len(bollinger_bands.data_window) = ma_lookback_periods
    /\ call.message.data.T >= current_candle[1].end_time

\* the candle of the step starts at or before the watermark or has not ended
Rejected ==
    /\ CandleStep
    /\ \/ call'.message.data.t <= latest_candle_watermark
       \/ call'.message.data.T >= call'.now

\* C9: a candle whose start is not after the watermark, or whose end is not
\* yet past, is skipped without error and leaves watermark, aggregate,
\* indicator and state unchanged and places no order; the watermark never
\* decreases and is the start of the latest accepted candle.
C9_RejectedCandleIsSkipped ==
    [][/\ Rejected =>
             /\ err' = "none"
             /\ ops' = <<>>
             /\ UNCHANGED <<latest_candle_watermark, current_candle, last_full_candle,
                            bollinger_bands, strategy_state, startup_complete>>
       /\ latest_candle_watermark' >= latest_candle_watermark
       /\ Accepted => latest_candle_watermark' = call'.message.data.t
       /\ (CandleStep /\ latest_candle_watermark' # latest_candle_watermark) => Accepted]_vars

\* a candle at or before the watermark has just been skipped, after candles
\* had been accepted
C9_Witness ==
    /\ call.op = "process_message"
    /\ call.message.channel = "candle"
    /\ call.message.data.t <= latest_candle_watermark
    /\ call.message.data.T < call.now
    /\ latest_candle_watermark > EpochWatermark
    /\ current_candle # <<>>
    /\ ops = <<>>
    /\ err = "none"

\* C10: strategy_state is always NEUTRAL, LONG or SHORT; after startup it
\* changes only in steps that handle a non-snapshot userFills message; a
\* snapshot fill leaves watermark, aggregate and indicator unchanged and
\* places or cancels nothing; no step moves LONG to SHORT or SHORT to LONG.
C10_StateMachine ==
    /\ [](strategy_state \in {"NEUTRAL", "LONG", "SHORT"})
    /\ [][/\ (phase = "live" /\ strategy_state' # strategy_state) => LiveFillStep
          /\ (FillStep /\ call'.message.data.isSnapshot) =>
                /\ ops' = <<>>
                /\ err' = "none"
                /\ UNCHANGED <<latest_candle_watermark, current_candle, last_full_candle,
                               bollinger_bands, strategy_state, startup_complete>>
          /\ ~(strategy_state = "LONG" /\ strategy_state' = "SHORT")
          /\ ~(strategy_state = "SHORT" /\ strategy_state' = "LONG")]_vars

\* a non-snapshot fill has just moved the strategy from LONG to NEUTRAL
C10_Witness ==
    /\ call.op = "process_message"
    /\ call.message.channel = "userFills"
    /\ ~call.message.data.isSnapshot
    /\ call.pre = "LONG"
    /\ strategy_state = "NEUTRAL"
    /\ ops = <<CancelAll(symbol)>>

(***************************************************************************)
(* Properties of the post correlation of the protocol client.              *)
(***************************************************************************)
\* thread w's await_post ends in the step
Returns(w) == waiter[w].pc # "done" /\ waiter'[w].pc = "done"

\* the step is _on_message handling a frame that is not a post frame of id i
OtherFrame(i) ==
    /\ inbound' # <<>>
    /\ inbound'[1].channel # "post" \/ inbound'[1].data.id # i

C4_AwaitTerminates ==
    /\ \A w \in Waiters :
          (waiter[w].pc = "waiting" /\ waiter[w].timeout # "none") ~> (waiter[w].pc = "done")
    /\ [][\A w \in Waiters :
             /\ (waiter[w].pc = "idle" /\ waiter'[w].pc # "idle"
                   /\ waiter'[w].id \notin DOMAIN pending_posts) =>
                      /\ waiter'[w].pc = "done"
                      /\ waiter'[w].result = <<>>
                      /\ waiter'[w].raised = "none"
                      /\ pending_posts' = pending_posts
             /\ (waiter[w].pc = "idle" /\ waiter'[w].pc # "idle"
                   /\ waiter'[w].timeout # "none") => waiter'[w].pc \in {"waiting", "done"}
             /\ (waiter[w].pc = "idle" /\ waiter'[w].pc # "idle"
                   /\ waiter'[w].timeout = "zero"
                   /\ waiter'[w].id \in DOMAIN pending_posts
                   /\ pending_posts[waiter'[w].id] = <<>>) =>
                      /\ waiter'[w].pc = "done"
                      /\ waiter'[w].result = <<>>
                      /\ waiter'[w].raised = "none"
             /\ (Returns(w) /\ waiter[w].pc = "waiting" /\ waiter[w].expired
                   /\ waiter[w].id \in DOMAIN pending_posts
                   /\ pending_posts[waiter[w].id] = <<>>) =>
                      /\ waiter'[w].result = <<>>
                      /\ waiter'[w].raised = "none"]_vars

\* an await_post with a finite timeout has waited, timed out and returned None
C4_Witness ==
    \E w \in Waiters :
       /\ waiter[w].pc = "done"
       /\ waiter[w].timeout = "finite"
       /\ waiter[w].expired
       /\ waiter[w].result = <<>>
       /\ waiter[w].raised = "none"
       /\ waiter[w].id \in DOMAIN pending_posts

(***************************************************************************)
(* Properties of the message handler under the client's dispatch.          *)
(***************************************************************************)
\* the step hands the strategy a message of a channel it does not know
UnknownChannelStep ==
    /\ call'.op \in {"process_message", "on_message"}
    /\ call'.message.channel \notin {"candle", "userFills"}

\* C11: a message whose channel is neither candle nor userFills makes the
\* message handler fail with a fatal error that leaves the step (it is not
\* swallowed), and strategy state, watermark, aggregate and indicator are
\* unchanged by it.
C11_UnknownChannelIsFatal ==
    [][UnknownChannelStep =>
          /\ err' = "ValueError"
          /\ UNCHANGED <<strategy_state, latest_candle_watermark, current_candle,
                         last_full_candle, bollinger_bands>>]_vars

(***************************************************************************)
(* Properties of startup.                                                  *)
(***************************************************************************)
\* C12: at the end of startup the state is NEUTRAL iff the live position in
\* the strategy's own symbol is flat, LONG iff it is positive and SHORT iff it
\* is negative; the first two exchange calls are cancel-alls, so no order is
\* submitted before the second cancel-all.
C12_StartupStateFromOwnPosition ==
    [][(StartUpStep /\ err' = "none") =>
          /\ strategy_state' = "NEUTRAL" <=> position[symbol] = 0
          /\ strategy_state' = "LONG" <=> position[symbol] > 0
          /\ strategy_state' = "SHORT" <=> position[symbol] < 0
          /\ Len(ops') >= 2
          /\ ops'[1] = CancelAll(symbol)
          /\ ops'[2] = CancelAll(symbol)]_vars

(***************************************************************************)
(* Properties of the candle aggregator.                                    *)
(***************************************************************************)
\* the candles fed up to the i-th whose start lies in the window of the
\* aggregate returned for the i-th: the bucket of that aggregate
InBucket(i) ==
    {k \in 1 .. i :
        /\ call.fed[k].candle.start_time >= call.fed[i].aggregate.start_time
        /\ call.fed[k].candle.start_time <= call.fed[i].aggregate.end_time}

RECURSIVE SumOver(_, _)
SumOver(S, f) ==
    IF S = {} THEN 0
    ELSE LET k == CHOOSE x \in S : TRUE IN f[k] + SumOver(S \ {k}, f)

\* C13: the aggregate returned for a fed candle has the open of the first
\* candle fed into its bucket, the close of the latest candle fed, the
\* maximum high and minimum low of the candles fed into the bucket, their
\* summed volume and trade count, and is_complete is true exactly when the fed
\* candle's end time is >= the aggregate's end time.
C13_AggregateOfBucket ==
    call.op = "aggregate_ohlcv" =>
       \A i \in 1 .. Len(call.fed) :
          LET a == call.fed[i].aggregate
              B == InBucket(i)
          IN  /\ i \in B
              /\ a.open = call.fed[CHOOSE k \in B : \A j \in B : k <= j].candle.open
              /\ a.close = call.fed[i].candle.close
              /\ \A k \in B : a.high >= call.fed[k].candle.high
              /\ \E k \in B : a.high = call.fed[k].candle.high
              /\ \A k \in B : a.low <= call.fed[k].candle.low
              /\ \E k \in B : a.low = call.fed[k].candle.low
              /\ a.volume = SumOver(B, [k \in B |-> call.fed[k].candle.volume])
              /\ a.num_trades = SumOver(B, [k \in B |-> call.fed[k].candle.num_trades])
              /\ call.fed[i].is_complete <=> call.fed[i].candle.end_time >= a.end_time

\* the candles fed so far are gap-free: each starts where the one before ended
GapFree ==
    \A i \in 2 .. Len(call.fed) :
       call.fed[i].candle.start_time = call.fed[i - 1].candle.start_time + InputMs

\* C14: for a gap-free sequence of equal-length small candles, is_complete is
\* true at most once per bucket and exactly on the last candle of the bucket,
\* every candle lies in the bucket of the aggregate it was merged into, and a
\* completed aggregate holds exactly the candles fed that start in its bucket.
C14_OneCompletionPerBucket ==
    (call.op = "aggregate_ohlcv" /\ GapFree) =>
       /\ \A i, j \in 1 .. Len(call.fed) :
             (i < j /\ call.fed[i].is_complete /\ call.fed[j].is_complete) =>
                call.fed[j].aggregate.start_time > call.fed[i].aggregate.end_time
       /\ \A i \in 1 .. Len(call.fed) :
             /\ i \in InBucket(i)
             /\ call.fed[i].is_complete <=>
                   call.fed[i].candle.start_time + InputMs > call.fed[i].aggregate.end_time
             /\ call.fed[i].aggregate.volume =
                   SumOver(InBucket(i), [k \in InBucket(i) |-> call.fed[k].candle.volume])

(***************************************************************************)
(* Properties of the Bollinger Bands indicator.                            *)
(***************************************************************************)
\* the last n values of a sequence, in order
LastN(seq, n) ==
    IF Len(seq) <= n THEN seq ELSE SubSeq(seq, Len(seq) - n + 1, Len(seq))

\* C15: update returns three Nones while fewer than N values were fed since
\* construction or the last reset and three values from the N-th on; is_ready
\* is true exactly when the window holds N values; the window never exceeds N
\* and holds the most recent values in arrival order; reset leaves the
\* indicator not ready with an empty window.
C15_WindowAndReadiness ==
    LET N == bollinger_bands.period
        w == bollinger_bands.data_window
    IN  /\ Len(w) <= N
        /\ w = LastN(call.since, N)
        /\ is_ready(bollinger_bands) <=> Len(w) = N
        /\ call.op = "update" =>
              /\ Len(call.since) < N => call.ret = <<<<>>, <<>>, <<>>>>
              /\ Len(call.since) >= N => \A i \in 1 .. 3 : call.ret[i] # <<>>
        /\ call.op = "reset" => (~is_ready(bollinger_bands) /\ w = <<>>)

\* an update slid a full window after an earlier reset
C15_Witness ==
    /\ call.op = "update"
    /\ call.resets > 0
    /\ Len(call.since) > bollinger_bands.period
    /\ is_ready(bollinger_bands)

\* n*n times the sum of squared deviations from the mean of a window
SqDevTimesNN(w) ==
    LET n == Len(w)
        total == SumOver(1 .. n, [i \in 1 .. n |-> w[i]])
    IN  SumOver(1 .. n, [i \in 1 .. n |-> (n * w[i] - total) * (n * w[i] - total)])

\* C16: for a full window the middle band is the mean of the window, upper
\* minus middle and middle minus lower both equal k times the sample standard
\* deviation (n-1 divisor), so lower <= middle <= upper; a constant window
\* gives three equal bands; period 3, k = 2 and window 1, 2, 3 give middle 2,
\* upper 4, lower 0.
C16_BandValues ==
    (call.op = "update" /\ is_ready(bollinger_bands)) =>
       LET N == bollinger_bands.period
           k == bollinger_bands.num_std_dev
           w == bollinger_bands.data_window
           middle == bollinger_bands.middle_band[1]
           upper == bollinger_bands.upper_band[1]
           lower == bollinger_bands.lower_band[1]
           total == SumOver(1 .. N, [i \in 1 .. N |-> w[i]])
       IN  /\ N * middle <= total /\ total < N * (middle + 1)
           /\ upper - middle = middle - lower
           /\ lower <= middle /\ middle <= upper
           /\ N >= 2 =>
                 \E sd \in 0 .. 3 * PxScale :
                    /\ sd * sd * N * N * (N - 1) <= SqDevTimesNN(w)
                    /\ SqDevTimesNN(w) < (sd + 1) * (sd + 1) * N * N * (N - 1)
                    /\ upper - middle = (k.num * sd) \div k.den
           /\ (\A i \in 1 .. N : w[i] = w[1]) => (upper = middle /\ lower = middle)
           /\ (N = 3 /\ k = [num |-> 2, den |-> 1]
                 /\ w = <<1 * PxScale, 2 * PxScale, 3 * PxScale>>) =>
                 (middle = 2 * PxScale /\ upper = 4 * PxScale /\ lower = 0)

\* the worked example: period 3, k = 2, window 1, 2, 3
C16_Witness ==
    /\ call.op = "update"
    /\ is_ready(bollinger_bands)
    /\ bollinger_bands.period = 3
    /\ bollinger_bands.num_std_dev = [num |-> 2, den |-> 1]
    /\ bollinger_bands.data_window = <<1 * PxScale, 2 * PxScale, 3 * PxScale>>
    /\ bollinger_bands.upper_band = <<4 * PxScale>>

(***************************************************************************)
(* Properties of the handler dispatch.                                     *)
(***************************************************************************)
\* handler h is registered for channel c
RegisteredFor(h, c) ==
    /\ c \in DOMAIN channel_handlers
    /\ \E i \in 1 .. Len(channel_handlers[c]) : channel_handlers[c][i] = h

IsWildcard(h) == \E i \in 1 .. Len(wildcard_handlers) : wildcard_handlers[i] = h

\* the step is _on_message dispatching a frame, or _on_error
DispatchStep == inbound' # <<>> /\ Len(arrived') = Len(arrived) + 1
ErrorStep == inbound' = <<>> /\ Len(arrived') = Len(arrived) + 1

\* C17: for an inbound frame with channel c every handler registered for c
\* and every wildcard handler is called exactly once with that frame and no
\* other handler is called, whichever handlers raise; on a socket error every
\* wildcard handler is called once with the error frame; no exception leaves
\* the callback and the connection keeps delivering.
C17_EveryHandlerOnce ==
    [][/\ DispatchStep =>
             /\ \A h \in Handlers :
                   received'[h] = IF RegisteredFor(h, inbound'[1].channel) \/ IsWildcard(h)
                                  THEN Append(received[h], inbound'[1])
                                  ELSE received[h]
             /\ err' = "none"
             /\ opened' = opened
       /\ ErrorStep =>
             /\ \A h \in Handlers :
                   received'[h] = IF IsWildcard(h) THEN Append(received[h], ErrorFrame)
                                  ELSE received[h]
             /\ err' = "none"
             /\ opened' = opened]_vars

\* a second frame was dispatched to two handlers of which the first raised
C17_Witness ==
    /\ inbound # <<>>
    /\ Len(arrived) >= 2
    /\ Len(calls) = 2
    /\ calls[1].raised = "Exception"
    /\ received[calls[2].handler] # <<>>
    /\ received[calls[2].handler][Len(received[calls[2].handler])] = inbound[1]

\* what arrived after handler h was registered
ArrivedSince(h) == SubSeq(arrived, registered_at[h][1] + 1, Len(arrived))

\* the frames of a sequence of arrivals
FramesOf(seq) == [i \in 1 .. Len(seq) |-> seq[i].frame]

\* the inbound frames of channel c among a sequence of arrivals
InboundOn(seq, c) ==
    LET OnChannel(e) == ~e.synthetic /\ e.frame.channel = c
    IN  FramesOf(SelectSeq(seq, OnChannel))

\* the logs of the handlers are what C18 says they are
HandlerLogs ==
    \A h \in Handlers :
       /\ registered_at[h] = <<>> => received[h] = <<>>
       /\ (registered_at[h] # <<>> /\ IsWildcard(h)) =>
             received[h] = FramesOf(ArrivedSince(h))
       /\ \A c \in HandlerChannels :
             (registered_at[h] # <<>> /\ RegisteredFor(h, c)) =>
                received[h] = InboundOn(ArrivedSince(h), c)

\* C18: a handler registered for channel c has received exactly the inbound
\* frames of channel c that arrived since, in arrival order; a wildcard
\* handler has received every inbound frame and one error frame per socket
\* error, in arrival order; a post frame of a pending id is stored as the
\* response of that id and dispatched to the handlers in the same step.
C18_HandlersReceiveInOrder ==
    /\ []HandlerLogs
    /\ [][(DispatchStep /\ NotifiesAll(pending_posts, inbound'[1])) =>
             /\ pending_posts'[inbound'[1].data.id] = <<inbound'[1].data>>
             /\ \A h \in Handlers :
                   (RegisteredFor(h, "post") \/ IsWildcard(h)) =>
                      received'[h] = Append(received[h], inbound'[1])]_vars

\* a wildcard handler saw a candle frame, a socket error and the response
\* of post 1, a channel handler only the post response
C18_Witness ==
    /\ 1 \in DOMAIN pending_posts
    /\ pending_posts[1] # <<>>
    /\ \E h, g \in Handlers :
          /\ IsWildcard(h)
          /\ Len(received[h]) = 3
          /\ received[h][2] = ErrorFrame
          /\ received[h][3].channel = "post"
          /\ RegisteredFor(g, "post")
          /\ registered_at[g] = <<0>>
          /\ received[g] = <<received[h][3]>>

(***************************************************************************)
(* Properties of connect and close.                                        *)
(***************************************************************************)
\* a close() has returned and connect() was not called since
Closed == ~app /\ stop_event /\ thread_ref = 0 /\ closer = "idle"

\* C19: a close() that returns raises nothing and leaves the client closed;
\* a close() on a closed client changes nothing of the client; and while the
\* client is closed no background thread starts a connection attempt, with or
\* without auto-reconnect.
C19_CloseIdempotent ==
    [][/\ (call'.op \in {"close", "close_returns"} /\ closer' = "idle") =>
             (err' = "none" /\ Closed')
       /\ (call'.op = "close" /\ Closed) =>
             UNCHANGED <<app, opened, stop_event, thread_ref, loop, closer, attempts,
                         pending_posts, dispVars>>
       /\ Closed => attempts' = attempts]_vars

\* a second close() on a client with auto-reconnect whose thread ran an
\* attempt and has ended
C19_Witness ==
    /\ call.op = "close"
    /\ call.closed
    /\ Closed
    /\ auto_reconnect
    /\ attempts >= 1
    /\ loop[1] = "exited"

\* C20: once close() was called, an await_post that is blocked leaves its
\* wait.
C20_CloseReleasesWaiters ==
    \A w \in Waiters :
       (waiter[w].pc = "waiting" /\ stop_event) ~> (waiter[w].pc # "waiting")

\* the background threads that were started
Born == {t \in Threads : loop[t] # "unborn"}

\* C21: with auto-reconnect, a thread whose connection has ended makes a new
\* attempt unless close() is called (or the model's bound on attempts is
\* reached); without auto-reconnect a thread whose connection has ended leaves
\* the loop, and no thread makes a second attempt.
C21_ReconnectLoop ==
    /\ \A t \in Threads :
          (loop[t] = "after" /\ auto_reconnect) ~>
             (loop[t] = "running" \/ stop_event \/ attempts = MaxAttempts)
    /\ \A t \in Threads :
          (loop[t] = "after" /\ ~auto_reconnect) ~> (loop[t] = "exited")
    /\ [][\A t \in Threads :
             (~auto_reconnect /\ loop[t] = "after") => loop'[t] \in {"after", "exited"}]_vars
    /\ [](~auto_reconnect => attempts <= Cardinality(Born))

\* the first thread is in its third attempt and close() was never called
C21_Witness ==
    /\ auto_reconnect
    /\ ~stop_event
    /\ Born = {1}
    /\ loop[1] = "running"
    /\ attempts = 3

(***************************************************************************)
(* Properties of the send path.                                            *)
(***************************************************************************)
\* the threads inside the with block of _send
InSend == {s \in Senders : sender[s].pc \in {"wait", "transmit"}}

Issued == {s \in Senders : sender[s].method = "post" /\ sender[s].id # 0}
WirePosts == {i \in 1 .. Len(wire) : wire[i].method = "post"}

\* C23: every next(self._id_counter) hands out the counter's value and
\* advances it, so the ids of post calls increase in issue order and no two
\* calls, concurrent or not, carry the same id; a post call past its
\* registration step has its id in the pending table, and so has every post
\* frame at the moment it is transmitted.
C23_PostIds ==
    /\ [][\A s \in Senders :
             (sender[s].pc = "alloc" /\ sender'[s].pc # "alloc") =>
                /\ sender'[s].id = id_counter
                /\ id_counter' > id_counter
                /\ \A o \in Issued : sender[o].id < sender'[s].id
                /\ \A i \in WirePosts : wire[i].id < sender'[s].id]_vars
    /\ [](\A s, o \in Issued : s # o => sender[s].id # sender[o].id)
    /\ [](\A i, j \in WirePosts : i # j => wire[i].id # wire[j].id)
    /\ [](\A s \in Issued :
             sender[s].pc \in {"lock", "wait", "transmit"} =>
                sender[s].id \in DOMAIN pending_posts)
    /\ [][\A i \in 1 .. Len(wire') :
             (i > Len(wire) /\ wire'[i].method = "post") =>
                wire'[i].id \in DOMAIN pending_posts]_vars

\* two threads posted concurrently and the later id went out first
C23_Witness ==
    /\ Len(wire) = 2
    /\ wire[1].method = "post" /\ wire[1].id = 2
    /\ wire[2].method = "post" /\ wire[2].id = 1
    /\ wire[1].by # wire[2].by

(***************************************************************************)
(* Session Manager: ids, registration, contexts, removal.                  *)
(***************************************************************************)
IdNumber(id) == id[2]
IssuedIds == {issued[k] : k \in 1 .. Len(issued)}

\* C24: over any series of add, add-strategy, remove and clear calls made one
\* after another on one manager, failed adds included, the ids issued are
\* strictly increasing in issue order, so no id is issued twice, also not
\* after its removal; an add returns ids issued by that very call; and an
\* entry appears in the table with status ACTIVE or ERROR.
C24_IdsNeverReused ==
    /\ [](\A i \in 1 .. Len(issued) : \A j \in 1 .. Len(issued) :
              i < j => IdNumber(issued[i]) < IdNumber(issued[j]))
    /\ [](DOMAIN subscriptions \subseteq IssuedIds)
    /\ [][/\ \A k \in 1 .. Len(issued) : issued'[k] = issued[k]
          /\ sm_call'.op \in {"add_subscription", "add_strategy_subscriptions"}
                => \A k \in 1 .. Len(sm_call'.ids) :
                       /\ sm_call'.ids[k] \in IssuedIds' \ IssuedIds
                       /\ sm_call'.ids[k] \in DOMAIN subscriptions'
          /\ \A i \in DOMAIN subscriptions' \ DOMAIN subscriptions :
                /\ subscriptions'[i].status \in {"active", "error"}
                /\ i \in IssuedIds' \ IssuedIds]_vars

\* the api manager hands out sub_2 for a failed subscribe, registered with
\* ERROR, after sub_1 was registered and removed
C24_Witness ==
    /\ manager = "api"
    /\ sm_call.op = "add_subscription"
    /\ sm_call.ids = <<SubscriptionId(2)>>
    /\ DOMAIN subscriptions = {SubscriptionId(2)}
    /\ subscriptions[SubscriptionId(2)].status = "error"
    /\ issued = <<SubscriptionId(1), SubscriptionId(2)>>

AddsReturned == {t \in Adders : adder[t].pc = "done" /\ adder[t].result = "ok"}

\* C25: concurrent add calls behave as if run one at a time: no two of them
\* obtain the same id, every add that returned has its own entry in the
\* table, and at most one context is built per address.
C25_ConcurrentAddsExclusive ==
    /\ \A i \in 1 .. Len(issued) : \A j \in 1 .. Len(issued) : i # j => issued[i] # issued[j]
    /\ \A t \in AddsReturned :
          /\ adder[t].id[1] \in DOMAIN subscriptions
          /\ subscriptions[adder[t].id[1]].user = adder[t].user
    /\ Cardinality(DOMAIN subscriptions) = Cardinality(AddsReturned)
    /\ \A a \in Addresses : constructions[a] <= 1
    /\ \A t \in AddsReturned : adder[t].client = <<contexts[adder[t].user].client>>

AddOps == {"add_subscription", "add_strategy_subscriptions"}
Built == {a \in Addresses : constructions[a] > 0}

\* the cache only grows and a cached context is never replaced: same client,
\* same engine; at most one context is built per address; a registered
\* subscription's address has a cached context
ContextsKept ==
    /\ [](\A a \in Addresses : constructions[a] <= 1 /\ (a \in DOMAIN contexts <=> a \in Built))
    /\ [][\A a \in DOMAIN contexts : a \in DOMAIN contexts' /\ contexts'[a] = contexts[a]]_vars
    /\ [][Built' # Built => sm_call'.op \in AddOps]_vars
    /\ [](manager = "core" =>
             \A i \in DOMAIN subscriptions : subscriptions[i].user \in DOMAIN contexts)
    /\ [][manager = "core" =>
             \A i \in DOMAIN subscriptions' \ DOMAIN subscriptions :
                 [client |-> contexts'[subscriptions'[i].user].client, tag |-> i] \in hl_subs']_vars

OthersUntouched(id) ==
    \A i \in DOMAIN subscriptions \ {id} :
        i \in DOMAIN subscriptions' /\ subscriptions'[i] = subscriptions[i]

SeqRange(q) == {q[k] : k \in 1 .. Len(q)}

\* C28: clear_all_subscriptions goes through every registered id, also after
\* a removal failed; it returns the number of entries removed, which is the
\* size of the table before minus its size after; the entries left are
\* exactly those whose unsubscribe raised.  get_subscription_stats reports
\* total = active + inactive + error = the number of registered entries.
C28_ClearAndStats ==
    /\ [][sm_call'.op = "clear_all_subscriptions" =>
             /\ SeqRange(sm_call'.target) = DOMAIN subscriptions
             /\ SeqRange(sm_call'.ids) \cup SeqRange(sm_call'.raised) = DOMAIN subscriptions
             /\ Len(sm_call'.unsubscribed) =
                    Cardinality({i \in DOMAIN subscriptions :
                                    subscriptions[i].subscription_id # <<>>})
             /\ sm_call'.count =
                    Cardinality(DOMAIN subscriptions) - Cardinality(DOMAIN subscriptions')
             /\ sm_call'.count = Len(sm_call'.ids)
             /\ DOMAIN subscriptions' = SeqRange(sm_call'.raised)
             /\ \A i \in DOMAIN subscriptions' :
                    subscriptions'[i] = [subscriptions[i] EXCEPT !.status = "error"]]_vars
    /\ [][sm_call'.op = "get_subscription_stats" =>
             /\ sm_call'.stats = <<SubscriptionStats(subscriptions)>>
             /\ subscriptions' = subscriptions]_vars
    /\ [](LET st == SubscriptionStats(subscriptions)
          IN  /\ st.total = st.active + st.inactive + st.error
              /\ st.total = Cardinality(DOMAIN subscriptions))

\* the unsubscribe of sub_1 raised and the clear went on to remove sub_2: it
\* returned 1 and left sub_1
C28_Witness ==
    /\ sm_call.op = "clear_all_subscriptions"
    /\ sm_call.target = <<SubscriptionId(1), SubscriptionId(2)>>
    /\ sm_call.raised = <<SubscriptionId(1)>>
    /\ sm_call.ids = <<SubscriptionId(2)>>
    /\ sm_call.count = 1
    /\ DOMAIN subscriptions = {SubscriptionId(1)}

\* the part of C29 about remove_strategy_subscriptions: every id of the dict
\* is tried, also after one failed, and the result is True only if every one
\* of them was removed
RemoveStrategyTriesAll ==
    [][sm_call'.op = "remove_strategy_subscriptions" =>
          /\ \A k \in 1 .. Len(sm_call'.target) :
                sm_call'.target[k] \in DOMAIN subscriptions =>
                    \/ sm_call'.target[k] \in SeqRange(sm_call'.ids)
                    \/ sm_call'.target[k] \in SeqRange(sm_call'.raised)
          /\ sm_call'.result = "True" =>
                /\ SeqRange(sm_call'.target) \subseteq DOMAIN subscriptions
                /\ SeqRange(sm_call'.target) \cap DOMAIN subscriptions' = {}
                /\ sm_call'.raised = <<>>
          /\ DOMAIN subscriptions' = DOMAIN subscriptions \ SeqRange(sm_call'.ids)]_vars

BuildFailures == {"TypeError", "Exception", "FactoryError"}

NamedAddress(params) ==
    IF params.user # NoUser THEN params.user
    ELSE IF params.account_alias \in DOMAIN AccountStore
    THEN AccountStore[params.account_alias].account_address
    ELSE params.account_address

NewlyRegisteredOn(address) ==
    \A i \in DOMAIN subscriptions' \ DOMAIN subscriptions :
        /\ subscriptions'[i].user = address
        /\ [client |-> contexts'[address].client, tag |-> i] \in hl_subs'

\* C31: an add, single or strategy, whose params name an address (by user,
\* or without user by an account_alias of the account store or by
\* account_address) is not refused for a missing user, and when it succeeds
\* its subscriptions are registered and subscribed on that address's context.
C31_AddressResolved ==
    [][manager = "core" /\ sm_call'.op \in AddOps /\ NamedAddress(sm_call'.params[1]) # "none"
       => /\ sm_call'.message # "ValueError"
          /\ sm_call'.result = "ok" => NewlyRegisteredOn(NamedAddress(sm_call'.params[1]))]_vars

(***************************************************************************)
(* cancel_all_orders                                                       *)
(***************************************************************************)
\* the orders of the book the call found that pass its symbol filter
Matching(c) == {i \in 1 .. Len(c.before) : c.symbol = NoSymbol \/ c.before[i].coin = c.symbol}

\* the cancels issued name exactly the matching orders, each once, in book order
CancelsEvery(c, issued_ops) ==
    /\ Len(issued_ops) = Cardinality(Matching(c))
    /\ \A i \in Matching(c) :
          \E j \in 1 .. Len(issued_ops) :
             /\ issued_ops[j] = Cancel(c.before[i].coin, c.before[i].oid)
             /\ j = Cardinality({k \in Matching(c) : k <= i})

\* C32: cancel_all_orders(symbol) issues a cancel for every open order that
\* matches the symbol filter (every open order without a filter), also after a
\* cancel that failed or raised; it never raises; it returns the number of
\* orders whose cancel was acknowledged ok; when listing the open orders
\* fails it returns 0
C32_CancelAllOrders ==
    call.op = "cancel_all_orders" =>
       /\ err = "none"
       /\ call.lists_ok =>
             /\ CancelsEvery(call, ops)
             /\ call.ret = Cardinality({i \in Matching(call) :
                                           call.reply[call.before[i].oid] = "ok"})
       /\ ~call.lists_ok => call.ret = 0 /\ ops = <<>>

\* a filtered call on a book with an order of another coin, whose first cancel
\* raised and whose later cancel was acknowledged
C32_Witness ==
    /\ call.op = "cancel_all_orders"
    /\ call.lists_ok
    /\ call.symbol = "ETH"
    /\ \E i \in 1 .. Len(call.before) : call.before[i].coin = "BTC"
    /\ Len(ops) = 2
    /\ call.reply[ops[1].oid] = "raise"
    /\ call.reply[ops[2].oid] = "ok"
    /\ call.ret = 1

(***************************************************************************)
(* Unsupported target units                                                *)
(***************************************************************************)
\* C33: a strategy constructed with a target unit other than s, m, h, d fails
\* at construction with the error of the unsupported unit, whatever the
\* startup history is, so the unit is never first found unsupported while a
\* live candle is processed
C33_UnsupportedUnitAtConstruction ==
    [][/\ call'.op = "start_up" /\ target_candle_unit \notin SupportedUnits
          => err' = "ValueError" /\ phase' = "failed"
       /\ CandleStep => target_candle_unit \in SupportedUnits]_vars

(***************************************************************************)
(* Indicator periods below two                                             *)
(***************************************************************************)
\* C34: no BollingerBands object exists with period < 2 and a positive
\* multiplier, so no update returns bands computed with a standard deviation
\* of zero in place of one
C34_NoPeriodBelowTwo ==
    ~(/\ bollinger_bands.period < 2
      /\ bollinger_bands.num_std_dev.num > 0
      /\ call.op = "update"
      /\ call.ret[1] # <<>>
      /\ call.ret[2] = call.ret[1])

(***************************************************************************)
(* The startup replay                                                      *)
(***************************************************************************)
\* the candles of a history the replay feeds to the aggregator: every one but
\* the last that starts after the epoch and after every candle before it
FedIndexes(hist) ==
    {i \in 1 .. Len(hist) - 1 :
        hist[i].t > EpochWatermark /\ \A j \in 1 .. i - 1 : hist[j].t < hist[i].t}

LastFed(hist) == CHOOSE i \in FedIndexes(hist) : \A j \in FedIndexes(hist) : j <= i

\* the hour a candle starts in
HourBucket(c) == c.t - (c.t % HourMs)

\* the candle reaches the last second of its hour
ClosesHour(c) == c.T >= HourBucket(c) + HourMs - SecondMs

\* the closes of the fed candles that complete an aggregate, in order
CompletedCloses(hist) ==
    LET idx == SelectSeq([i \in 1 .. Len(hist) |-> i],
                         LAMBDA i : i \in FedIndexes(hist) /\ ClosesHour(hist[i]))
    IN  [k \in 1 .. Len(idx) |-> hist[idx[k]].c]

\* the last candle of the history starts after every other and after the epoch
LastIsNew(hist) ==
    /\ hist # <<>>
    /\ hist[Len(hist)].t > EpochWatermark
    /\ \A j \in 1 .. Len(hist) - 1 : hist[j].t < hist[Len(hist)].t

\* the step constructs the strategy: the watermark, the aggregate and the
\* indicator are those of the fed candles, and the orders come after the replay
ReplayStep ==
    LET hist == call'.hist
        fed == FedIndexes(hist)
    IN  /\ latest_candle_watermark' =
              IF fed = {} THEN EpochWatermark ELSE hist[LastFed(hist)].t
        /\ (current_candle' = <<>>) <=> (fed = {})
        /\ fed # {} =>
              /\ current_candle'[1].start_time = HourBucket(hist[LastFed(hist)])
              /\ current_candle'[1].close = hist[LastFed(hist)].c
              /\ current_candle'[1].volume =
                    Cardinality({i \in fed : HourBucket(hist[i]) = HourBucket(hist[LastFed(hist)])})
        /\ bollinger_bands'.data_window = LastN(CompletedCloses(hist), ma_lookback_periods)
        /\ LastIsNew(hist) => latest_candle_watermark' < hist[Len(hist)].t
        /\ ops' # <<>> => ops'[1] = CancelAll(symbol)
        /\ err' = "none" =>
              /\ Len(ops') = 4
              /\ ops'[3].limit_px = RoundValues(bollinger_bands'.lower_band[1], PxUnit)
              /\ ops'[4].limit_px = RoundValues(bollinger_bands'.upper_band[1], PxUnit)

\* the step hands the last candle of the history to process_message: it is
\* accepted when it is closed and starts after the watermark, and changes
\* nothing otherwise
LastCandleStep ==
    LET last == call'.message.data
    IN  IF last.t > latest_candle_watermark /\ call'.now > last.T
        THEN /\ latest_candle_watermark' = last.t
             /\ current_candle'[1].close = last.c
        ELSE UNCHANGED stratVars

\* C35: the startup replay feeds the aggregator every candle of the history
\* but the last and but those that start at or before the running watermark,
\* and the indicator once per completed aggregate; no order is cancelled or
\* placed before the replay is over; the last candle of the history leaves
\* the watermark, the aggregate and the indicator alone, so that it is
\* accepted once, and only once, when it arrives live
C35_StartupReplay ==
    [][/\ call'.op = "start_up" => ReplayStep
       /\ call'.op = "process_message" => LastCandleStep]_vars

\* the last candle of a replayed history was accepted live, and has arrived
\* once more without effect
C35_Witness ==
    /\ call.op = "process_message"
    /\ Len(call.hist) = MaxHist
    /\ latest_candle_watermark = call.message.data.t
    /\ Len(bollinger_bands.data_window) = ma_lookback_periods
    /\ ops = <<>>
    /\ \A i \in 1 .. Len(call.hist) - 1 : call.hist[i].t < call.message.data.t

(***************************************************************************)
(* Bucket boundaries                                                       *)
(***************************************************************************)
\* C36: for every supported unit and target period normalize_timestamp(t) lies
\* in (t - duration, t], and it is idempotent: normalising a normalised
\* timestamp returns it unchanged
C36_NormalizeBuckets ==
    call.op \in {"normalize_timestamp", "renormalize"} =>
       /\ call.ret # <<>>
       /\ call.ret[1] <= call.timestamp
       /\ call.timestamp < call.ret[1] + get_timedelta(call.period, call.unit)[1]
       /\ call.op = "renormalize" => call.ret[1] = call.timestamp

(***************************************************************************)
(* Order sizes                                                             *)
(***************************************************************************)
\* C37: every order the strategy hands to the exchange, at startup, on an
\* aggregate completion or on a fill, has a strictly positive size
C37_PositiveSizes ==
    \A i \in 1 .. Len(ops) : ops[i].op = "order" => ops[i].sz > 0

(***************************************************************************)
(* Threads awaiting the same post                                          *)
(***************************************************************************)
\* C38: await_post never raises, whatever the interleaving: of two threads
\* awaiting the same id one returns the response and the other returns None
\* or goes on waiting
C38_AwaitNeverRaises ==
    \A w \in Waiters : waiter[w].raised = "none"

(***************************************************************************)
(* The pending-post table                                                  *)
(***************************************************************************)
\* C39: the pending-post table holds only ids of posts that were sent and
\* whose await_post has not returned yet: an id in the table was handed to
\* the socket, and once an await_post of an id returns, with the response or
\* on its timeout, the id is out of the table
C39_PendingTable ==
    [][/\ DOMAIN pending_posts' \subseteq sent'
       /\ \A w \in Waiters : Returns(w) => waiter'[w].id \notin DOMAIN pending_posts']_vars

(***************************************************************************)
(* One background thread                                                   *)
(***************************************************************************)
\* the background threads that are inside _run
InRun == {t \in Threads : loop[t] \notin {"unborn", "exited"}}

\* C40: over any sequence of connect() and close() calls at most one
\* background thread is inside the reconnect loop at any time
C40_OneLoopThread ==
    Cardinality(InRun) <= 1

====
